---- MODULE Spec2Model ----
(***************************************************************************)
(* Model of the Farmily-Cloud ownership-transfer protocol.                 *)
(*                                                                         *)
(*  - Ledger part: the ProductManagement contract (registerUser,           *)
(*    createProduct, updateProductStatus, initiateTransfer,                *)
(*    acceptTransfer, cancelTransfer, updateProductOwnerAddress).  One     *)
(*    action is one transaction; `receipt` is the receipt of the last      *)
(*    transaction (status, revert reason, emitted events).                 *)
(*  - Submission part: nonceManager / sendTransaction of the backend       *)
(*    Web3Service, with one step per synchronous stretch between awaits.   *)
(*  - Mirror part: the Product and Transfer documents of the backend's     *)
(*    document store under the dashboard routes (register product,         *)
(*    initiate, cancel, accept, sync), next to the ledger they mirror.     *)
(***************************************************************************)
EXTENDS Integers, Sequences, FiniteSets, TLC

\* ------------------------------------------------------------------ bounds
\* units in circulation: the environment registers one batch of MaxQty units and
\* smaller holdings arise from partial transfers
MaxQty == 3
\* largest block.timestamp
MaxTime == 2
\* number of sendTransaction calls made on the signing account
MaxCalls == 3
\* number of initiateTransfer transactions the farmer's wallet submits
MaxSubmissions == 2
\* number of Transfer documents the mirror holds
MaxTransfers == 1
\* number of POST /initiateTransfer requests that are served together
MaxRequests == 2
\* largest maxAttempts a waitForTransactionReceipt call is given
MaxAttempts == 3

\* ------------------------------------------------------------- value sets
NullAddress == "0x0"
Addresses == {"a1", "a2", "a3"}
EmptyString == ""
Identifiers == {"", "idA", "idB"}
\* the identifiers registered in the transfer protocol's specification
ProtocolIdentifiers == {"idA"}

StatusRegistered == 0
StatusDelivered == 7
StatusInputs == {StatusRegistered, StatusDelivered}
\* enum Status: Registered, Planted, Growing, Harvested, Processed, Packaged,
\* InTransit, Delivered
Statuses == StatusRegistered..StatusDelivered

NoProductId == <<0>>

\* messages of the contract's require / TransferError statements
ErrBatchEmpty == "Batch number cannot be empty"
ErrTypeEmpty == "Product type cannot be empty"
ErrOriginEmpty == "Origin cannot be empty"
ErrInvalidDate == "Invalid production date"
ErrQuantityZero == "Quantity must be greater than zero"
ErrPriceZero == "Price must be greater than zero"
ErrIdentifierRegistered == "Identifier already registered"
ErrAddressRegistered == "Address already registered"
ErrProductNotExist == "Product does not exist"
ErrStatusNotOwner == "Only the current owner can update the status"
ErrNotOwner == "Only the current owner can initiate transfer"
ErrInvalidQuantity == "Invalid transfer quantity"
ErrRecipientUnregistered == "Recipient not registered"
ErrSelfTransfer == "Cannot transfer to yourself"
ErrTransferAlreadyPending == "A transfer is already pending for this product"
ErrNoPendingTransferId == "No pending transfer for this transfer ID"
ErrNotRecipient == "Only the intended recipient can accept the transfer"
ErrStaleTransfer == "Transfer initiator is no longer the owner"
ErrQuantityExceeds == "Transfer quantity exceeds available product quantity"
ErrNotInitiator == "Only the transfer initiator can cancel the transfer"
ErrNoPendingTransfer == "No pending transfer for this product"
ErrAddressNotOwner == "Only the current owner can update the address"
ErrNotDelivered == "Product must be delivered to trigger payment"
ErrPaymentAmount == "Incorrect payment amount"
ErrReentrantCall == "ReentrancyGuard: reentrant call"
NoError == "ok"

VARIABLES
    products,             \* mapping(bytes32 => Product), over the ids ever written
    pendingTransfers,     \* mapping(bytes32 => PendingTransfer), same domain
    identifierToAddress,  \* mapping(string => address)
    addressToIdentifier,  \* mapping(address => string)
    productIdCounter,     \* Counters.Counter _productIdCounter
    blockTimestamp,       \* block.timestamp of the block being built
    receipt               \* receipt of the last transaction

VARIABLES
    nonce,                \* nonceManager.nonce (NullNonce for null)
    transactionCount,     \* the ledger's mined transaction count of the account
    pc,                   \* per sendTransaction call: the await it is suspended at
    count,                \* per call: the getTransactionCount reply not yet consumed
    txNonce,              \* per call: the nonce getNonce returned to it
    sent,                 \* per call: signed transactions handed to the ledger
    issued                \* the nonces returned by getNonce, in order of return

VARIABLES
    mirrorProduct,        \* the Product document of the batch: currentOwner, quantity,
                          \* ownershipHistory (the owner of each entry, in order)
    transfers,            \* the Transfer documents, in order of creation
    txs,                  \* the initiateTransfer transactions submitted, by hash
    lastAccept            \* what the latest POST /acceptTransfer request did

VARIABLES
    requests              \* per POST /initiateTransfer request: the await it is at,
                          \* its quantity and the Product document it loaded

VARIABLES
    wait                  \* the waitForTransactionReceipt call of the browser: where it
                          \* is, its maxAttempts and attempts, the polls made, whether
                          \* the transaction is mined, and how the promise settled

VARIABLES
    reentrancy            \* ReentrancyGuard._status, and while a triggerPayment is
                          \* executing the address it is paying

nonceVars == <<nonce, transactionCount, pc, count, txNonce, sent, issued>>

mirrorVars == <<mirrorProduct, transfers, txs, lastAccept>>

ledgerVars == <<products, pendingTransfers, identifierToAddress, addressToIdentifier,
                productIdCounter, blockTimestamp, receipt>>

\* ------------------------------------------------------------ ledger data
ZeroProduct ==
    [batchNumber |-> "", productType |-> "", origin |-> "", productionDate |-> 0,
     quantity |-> 0, currentOwner |-> NullAddress, status |-> StatusRegistered, price |-> 0]

ZeroTransfer == [from |-> NullAddress, to |-> NullAddress, quantity |-> 0]

ProductAt(id) == IF id \in DOMAIN products THEN products[id] ELSE ZeroProduct

PendingAt(id) == IF id \in DOMAIN pendingTransfers THEN pendingTransfers[id] ELSE ZeroTransfer

SetMapping(m, id, v) == [k \in (DOMAIN m) \cup {id} |-> IF k = id THEN v ELSE m[k]]

productExists(id) == ProductAt(id).currentOwner # NullAddress

hasPendingTransfer(id) == PendingAt(id).quantity # 0

CounterId(n) == <<n>>

\* keccak256(abi.encodePacked(_transferId, block.timestamp, msg.sender)): the hash
\* is taken as injective, so the id is the triple of its inputs
HashId(transferId, timestamp, sender) == <<transferId, timestamp, sender>>

ProductIdInputs == (DOMAIN products) \cup {NoProductId}

RECURSIVE SumQuantity(_, _)
SumQuantity(m, ids) ==
    IF ids = {} THEN 0
    ELSE LET id == CHOOSE x \in ids : TRUE
         IN  m[id].quantity + SumQuantity(m, ids \ {id})

TotalQuantity == SumQuantity(products, DOMAIN products)

\* the units the environment brings into circulation: one batch of MaxQty units,
\* or one larger by a unit
MaxUnits == MaxQty + 1

\* receipt of a transaction: the function called and its sender, whether it
\* reverted, the revert (or TransferError) reason, the events emitted
Receipt(fn, sender, reason, reverted, events) ==
    [fn |-> fn, from |-> sender, status |-> IF reverted THEN "reverted" ELSE "success",
     reason |-> reason, events |-> events]

Revert(fn, sender, reason) ==
    /\ receipt' = Receipt(fn, sender, reason, TRUE, <<>>)
    /\ UNCHANGED <<products, pendingTransfers, identifierToAddress, addressToIdentifier,
                   productIdCounter, blockTimestamp>>

\* ------------------------------------------------------- ledger: createProduct
\* createProductError without the check of the price
createProductErrorNoPriceCheck(batch, type, origin, date, quantity, price) ==
    IF batch = EmptyString THEN ErrBatchEmpty
    ELSE IF type = EmptyString THEN ErrTypeEmpty
    ELSE IF origin = EmptyString THEN ErrOriginEmpty
    ELSE IF ~(date > 0 /\ date <= blockTimestamp) THEN ErrInvalidDate
    ELSE IF ~(quantity > 0) THEN ErrQuantityZero
    ELSE NoError

createProductError(batch, type, origin, date, quantity, price) ==
    IF batch = EmptyString THEN ErrBatchEmpty
    ELSE IF type = EmptyString THEN ErrTypeEmpty
    ELSE IF origin = EmptyString THEN ErrOriginEmpty
    ELSE IF ~(date > 0 /\ date <= blockTimestamp) THEN ErrInvalidDate
    ELSE IF ~(quantity > 0) THEN ErrQuantityZero
    ELSE IF ~(price > 0) THEN ErrPriceZero
    ELSE NoError

createProduct(sender, batch, type, origin, date, quantity, price) ==
    LET err == createProductError(batch, type, origin, date, quantity, price)
        productId == CounterId(productIdCounter + 1)
    IN  IF err # NoError
        THEN Revert("createProduct", sender, err)
        ELSE /\ TotalQuantity + quantity <= MaxUnits
             /\ productIdCounter' = productIdCounter + 1
             /\ products' = SetMapping(products, productId,
                    [batchNumber |-> batch, productType |-> type, origin |-> origin,
                     productionDate |-> date, quantity |-> quantity,
                     currentOwner |-> sender, status |-> StatusRegistered,
                     price |-> price])
             /\ pendingTransfers' = SetMapping(pendingTransfers, productId, PendingAt(productId))
             /\ receipt' = Receipt("createProduct", sender, NoError, FALSE,
                    <<[name |-> "ProductCreated", productId |-> productId,
                       batchNumber |-> batch, owner |-> sender]>>)
             /\ UNCHANGED <<identifierToAddress, addressToIdentifier, blockTimestamp>>

\* -------------------------------------------------------- ledger: registerUser
registerUserError(sender, identifier) ==
    IF identifierToAddress[identifier] # NullAddress THEN ErrIdentifierRegistered
    ELSE IF addressToIdentifier[sender] # EmptyString THEN ErrAddressRegistered
    ELSE NoError

registerUser(sender, identifier) ==
    LET err == registerUserError(sender, identifier)
    IN  IF err # NoError
        THEN Revert("registerUser", sender, err)
        ELSE /\ identifierToAddress' = [identifierToAddress EXCEPT ![identifier] = sender]
             /\ addressToIdentifier' = [addressToIdentifier EXCEPT ![sender] = identifier]
             /\ receipt' = Receipt("registerUser", sender, NoError, FALSE,
                    <<[name |-> "UserRegistered", identifier |-> identifier,
                       userAddress |-> sender]>>)
             /\ UNCHANGED <<products, pendingTransfers, productIdCounter, blockTimestamp>>

\* ------------------------------------------------- ledger: updateProductStatus
\* updateProductStatusError without the check that the caller owns the product
updateProductStatusErrorNoOwnerCheck(sender, productId) ==
    IF ~(ProductAt(productId).currentOwner # NullAddress) THEN ErrProductNotExist
    ELSE NoError

updateProductStatusError(sender, productId) ==
    IF ~(ProductAt(productId).currentOwner # NullAddress) THEN ErrProductNotExist
    ELSE IF ~(ProductAt(productId).currentOwner = sender) THEN ErrStatusNotOwner
    ELSE NoError

updateProductStatus(sender, productId, newStatus) ==
    LET err == updateProductStatusError(sender, productId)
    IN  IF err # NoError
        THEN Revert("updateProductStatus", sender, err)
        ELSE /\ products' = [products EXCEPT ![productId].status = newStatus]
             /\ receipt' = Receipt("updateProductStatus", sender, NoError, FALSE,
                    <<[name |-> "StatusUpdated", productId |-> productId,
                       oldStatus |-> products[productId].status,
                       newStatus |-> newStatus]>>)
             /\ UNCHANGED <<pendingTransfers, identifierToAddress, addressToIdentifier,
                            productIdCounter, blockTimestamp>>

\* ---------------------------------------------------- ledger: initiateTransfer
\* The checks of initiateTransfer in source order; a failed check emits
\* TransferError(reason) and returns: the transaction itself does not revert.
initiateTransferErrorNoPendingCheck(sender, productId, toIdentifier, quantity) ==
    IF ~productExists(productId) THEN ErrProductNotExist
    ELSE IF ProductAt(productId).currentOwner # sender THEN ErrNotOwner
    ELSE IF quantity = 0 \/ quantity > ProductAt(productId).quantity THEN ErrInvalidQuantity
    ELSE IF identifierToAddress[toIdentifier] = NullAddress THEN ErrRecipientUnregistered
    ELSE IF identifierToAddress[toIdentifier] = sender THEN ErrSelfTransfer
    ELSE NoError

initiateTransferErrorNoSelfCheck(sender, productId, toIdentifier, quantity) ==
    IF ~productExists(productId) THEN ErrProductNotExist
    ELSE IF ProductAt(productId).currentOwner # sender THEN ErrNotOwner
    ELSE IF quantity = 0 \/ quantity > ProductAt(productId).quantity THEN ErrInvalidQuantity
    ELSE IF identifierToAddress[toIdentifier] = NullAddress THEN ErrRecipientUnregistered
    ELSE IF PendingAt(productId).quantity # 0 THEN ErrTransferAlreadyPending
    ELSE NoError

initiateTransferError(sender, productId, toIdentifier, quantity) ==
    IF ~productExists(productId) THEN ErrProductNotExist
    ELSE IF ProductAt(productId).currentOwner # sender THEN ErrNotOwner
    ELSE IF quantity = 0 \/ quantity > ProductAt(productId).quantity THEN ErrInvalidQuantity
    ELSE IF identifierToAddress[toIdentifier] = NullAddress THEN ErrRecipientUnregistered
    ELSE IF identifierToAddress[toIdentifier] = sender THEN ErrSelfTransfer
    ELSE IF PendingAt(productId).quantity # 0 THEN ErrTransferAlreadyPending
    ELSE NoError

\* initiateTransfer with the quantity taken off the product when the transfer is
\* recorded
initiateTransferReserves(sender, productId, toIdentifier, quantity) ==
    LET err == initiateTransferError(sender, productId, toIdentifier, quantity)
        toAddress == identifierToAddress[toIdentifier]
    IN  IF err # NoError
        THEN /\ receipt' = Receipt("initiateTransfer", sender, err, FALSE,
                    <<[name |-> "TransferError", productId |-> productId, reason |-> err]>>)
             /\ UNCHANGED <<products, pendingTransfers, identifierToAddress,
                            addressToIdentifier, productIdCounter, blockTimestamp>>
        ELSE /\ pendingTransfers' = [pendingTransfers EXCEPT ![productId] =
                    [from |-> sender, to |-> toAddress, quantity |-> quantity]]
             /\ products' = [products EXCEPT ![productId].quantity = @ - quantity]
             /\ receipt' = Receipt("initiateTransfer", sender, NoError, FALSE,
                    <<[name |-> "TransferInitiated", productId |-> productId,
                       from |-> sender, to |-> toAddress, quantity |-> quantity]>>)
             /\ UNCHANGED <<identifierToAddress, addressToIdentifier,
                            productIdCounter, blockTimestamp>>

initiateTransfer(sender, productId, toIdentifier, quantity) ==
    LET err == initiateTransferError(sender, productId, toIdentifier, quantity)
        toAddress == identifierToAddress[toIdentifier]
    IN  IF err # NoError
        THEN /\ receipt' = Receipt("initiateTransfer", sender, err, FALSE,
                    <<[name |-> "TransferError", productId |-> productId, reason |-> err]>>)
             /\ UNCHANGED <<products, pendingTransfers, identifierToAddress,
                            addressToIdentifier, productIdCounter, blockTimestamp>>
        ELSE /\ pendingTransfers' = [pendingTransfers EXCEPT ![productId] =
                    [from |-> sender, to |-> toAddress, quantity |-> quantity]]
             /\ receipt' = Receipt("initiateTransfer", sender, NoError, FALSE,
                    <<[name |-> "TransferInitiated", productId |-> productId,
                       from |-> sender, to |-> toAddress, quantity |-> quantity]>>)
             /\ UNCHANGED <<products, identifierToAddress, addressToIdentifier,
                            productIdCounter, blockTimestamp>>

\* ------------------------------------------------------ ledger: acceptTransfer
\* acceptTransferError without the check that the initiator still owns the product
acceptTransferErrorNoOwnerCheck(sender, transferId) ==
    IF ~(PendingAt(transferId).quantity > 0) THEN ErrNoPendingTransferId
    ELSE IF ~(PendingAt(transferId).to = sender) THEN ErrNotRecipient
    ELSE IF ~(ProductAt(transferId).currentOwner # NullAddress) THEN ErrProductNotExist
    ELSE IF ~(PendingAt(transferId).quantity <= ProductAt(transferId).quantity)
        THEN ErrQuantityExceeds
    ELSE NoError

\* acceptTransferError without the check that the caller is the recipient
acceptTransferErrorNoRecipientCheck(sender, transferId) ==
    IF ~(PendingAt(transferId).quantity > 0) THEN ErrNoPendingTransferId
    ELSE IF ~(ProductAt(transferId).currentOwner # NullAddress) THEN ErrProductNotExist
    ELSE IF ~(ProductAt(transferId).currentOwner = PendingAt(transferId).from)
        THEN ErrStaleTransfer
    ELSE IF ~(PendingAt(transferId).quantity <= ProductAt(transferId).quantity)
        THEN ErrQuantityExceeds
    ELSE NoError

acceptTransferError(sender, transferId) ==
    IF ~(PendingAt(transferId).quantity > 0) THEN ErrNoPendingTransferId
    ELSE IF ~(PendingAt(transferId).to = sender) THEN ErrNotRecipient
    ELSE IF ~(ProductAt(transferId).currentOwner # NullAddress) THEN ErrProductNotExist
    ELSE IF ~(ProductAt(transferId).currentOwner = PendingAt(transferId).from)
        THEN ErrStaleTransfer
    ELSE IF ~(PendingAt(transferId).quantity <= ProductAt(transferId).quantity)
        THEN ErrQuantityExceeds
    ELSE NoError

\* acceptTransferProducts without the full-transfer branch: every acceptance splits
acceptTransferProductsAlwaysSplit(sender, transferId) ==
    LET transfer == PendingAt(transferId)
        product == ProductAt(transferId)
        newProductId == HashId(transferId, blockTimestamp, sender)
    IN  [SetMapping(products, newProductId,
             [product EXCEPT !.quantity = transfer.quantity, !.currentOwner = sender])
         EXCEPT ![transferId].quantity = product.quantity - transfer.quantity]

\* the product mapping after the body of acceptTransfer (full or partial branch)
acceptTransferProducts(sender, transferId) ==
    LET transfer == PendingAt(transferId)
        product == ProductAt(transferId)
        newProductId == HashId(transferId, blockTimestamp, sender)
    IN  IF transfer.quantity = product.quantity
        THEN [products EXCEPT ![transferId].currentOwner = sender]
        ELSE [SetMapping(products, newProductId,
                  [batchNumber |-> product.batchNumber,
                   productType |-> product.productType,
                   origin |-> product.origin,
                   productionDate |-> product.productionDate,
                   quantity |-> transfer.quantity,
                   currentOwner |-> sender,
                   status |-> product.status,
                   price |-> product.price])
              EXCEPT ![transferId].quantity = product.quantity - transfer.quantity]

acceptTransferEvents(sender, transferId) ==
    LET transfer == PendingAt(transferId)
        product == ProductAt(transferId)
        newProductId == HashId(transferId, blockTimestamp, sender)
        created == IF transfer.quantity = product.quantity THEN <<>>
                   ELSE <<[name |-> "ProductCreated", productId |-> newProductId,
                           batchNumber |-> product.batchNumber, owner |-> sender]>>
    IN  created \o
        <<[name |-> "TransferAccepted", productId |-> transferId,
           from |-> transfer.from, to |-> sender, quantity |-> transfer.quantity],
          [name |-> "OwnershipTransferred", productId |-> transferId,
           from |-> transfer.from, to |-> sender, quantity |-> transfer.quantity]>>

\* acceptTransferPending without the delete: the accepted transfer stays recorded
acceptTransferPendingKept(sender, transferId) ==
    [id \in DOMAIN acceptTransferProducts(sender, transferId) |-> PendingAt(id)]

\* delete pendingTransfers[_transferId]
acceptTransferPending(sender, transferId) ==
    [id \in DOMAIN acceptTransferProducts(sender, transferId) |->
        IF id = transferId THEN ZeroTransfer ELSE PendingAt(id)]

acceptTransfer(sender, transferId) ==
    LET err == acceptTransferError(sender, transferId)
    IN  IF err # NoError
        THEN Revert("acceptTransfer", sender, err)
        ELSE /\ products' = acceptTransferProducts(sender, transferId)
             /\ pendingTransfers' = acceptTransferPending(sender, transferId)
             /\ receipt' = Receipt("acceptTransfer", sender, NoError, FALSE,
                    acceptTransferEvents(sender, transferId))
             /\ UNCHANGED <<identifierToAddress, addressToIdentifier, productIdCounter,
                            blockTimestamp>>

\* ------------------------------------------------------ ledger: cancelTransfer
\* cancelTransferError without the check that a transfer is pending
cancelTransferErrorNoPendingCheck(sender, productId) ==
    IF ~(addressToIdentifier[sender] = addressToIdentifier[PendingAt(productId).from])
        THEN ErrNotInitiator
    ELSE NoError

cancelTransferError(sender, productId) ==
    IF ~(addressToIdentifier[sender] = addressToIdentifier[PendingAt(productId).from])
        THEN ErrNotInitiator
    ELSE IF ~(PendingAt(productId).quantity > 0) THEN ErrNoPendingTransfer
    ELSE NoError

cancelTransfer(sender, productId) ==
    LET err == cancelTransferError(sender, productId)
    IN  IF err # NoError
        THEN Revert("cancelTransfer", sender, err)
        ELSE /\ pendingTransfers' = [id \in DOMAIN pendingTransfers |->
                    IF id = productId THEN ZeroTransfer ELSE pendingTransfers[id]]
             /\ receipt' = Receipt("cancelTransfer", sender, NoError, FALSE,
                    <<[name |-> "TransferCancelled", productId |-> productId]>>)
             /\ UNCHANGED <<products, identifierToAddress, addressToIdentifier,
                            productIdCounter, blockTimestamp>>

\* ------------------------------------------- ledger: updateProductOwnerAddress
updateProductOwnerAddressError(sender, productId) ==
    IF ~(ProductAt(productId).currentOwner # NullAddress) THEN ErrProductNotExist
    ELSE IF ~(addressToIdentifier[sender] =
              addressToIdentifier[ProductAt(productId).currentOwner])
        THEN ErrAddressNotOwner
    ELSE NoError

updateProductOwnerAddress(sender, productId) ==
    LET err == updateProductOwnerAddressError(sender, productId)
    IN  IF err # NoError
        THEN Revert("updateProductOwnerAddress", sender, err)
        ELSE /\ products' = [products EXCEPT ![productId].currentOwner = sender]
             /\ receipt' = Receipt("updateProductOwnerAddress", sender, NoError, FALSE, <<>>)
             /\ UNCHANGED <<pendingTransfers, identifierToAddress, addressToIdentifier,
                            productIdCounter, blockTimestamp>>

\* ------------------------------------------------- ledger: ReentrancyGuard
NotEntered == [status |-> "NOT_ENTERED", payee |-> NullAddress, value |-> 0]

ReentrancyInit == reentrancy = NotEntered

\* no transaction is being executed: a transaction starts when the one before it
\* has finished
TopLevel == reentrancy.status = "NOT_ENTERED"

\* modifier nonReentrant on a call made while _status is ENTERED: the require
\* fails and the call reverts
nonReentrantReverts(fn, sender) ==
    /\ reentrancy.status = "ENTERED"
    /\ Revert(fn, sender, ErrReentrantCall)

\* --------------------------------------------------- ledger: triggerPayment
\* triggerPaymentError without the check of the attached value
triggerPaymentErrorNoAmountCheck(productId, value) ==
    IF ~(ProductAt(productId).currentOwner # NullAddress) THEN ErrProductNotExist
    ELSE IF ~(ProductAt(productId).status = StatusDelivered) THEN ErrNotDelivered
    ELSE NoError

triggerPaymentError(productId, value) ==
    IF ~(ProductAt(productId).currentOwner # NullAddress) THEN ErrProductNotExist
    ELSE IF ~(ProductAt(productId).status = StatusDelivered) THEN ErrNotDelivered
    ELSE IF ~(value = ProductAt(productId).price * ProductAt(productId).quantity)
        THEN ErrPaymentAmount
    ELSE NoError

\* triggerPayment up to owner.transfer(msg.value): nonReentrant has set _status
\* to ENTERED and the code of the owner's account is given control
triggerPayment(sender, productId, value) ==
    /\ reentrancy.status = "NOT_ENTERED"
    /\ LET err == triggerPaymentError(productId, value)
       IN  IF err # NoError
           THEN /\ Revert("triggerPayment", sender, err)
                /\ UNCHANGED reentrancy
           ELSE /\ reentrancy' = [status |-> "ENTERED",
                                  payee |-> ProductAt(productId).currentOwner,
                                  value |-> value]
                /\ receipt' = Receipt("triggerPayment", sender, NoError, FALSE, <<>>)
                /\ UNCHANGED <<products, pendingTransfers, identifierToAddress,
                               addressToIdentifier, productIdCounter, blockTimestamp>>

\* owner.transfer returns, PaymentTriggered is emitted and nonReentrant sets
\* _status back to NOT_ENTERED
triggerPaymentReturns ==
    /\ reentrancy.status = "ENTERED"
    /\ reentrancy' = NotEntered
    /\ receipt' = Receipt("triggerPayment", receipt.from, NoError, FALSE,
                          <<[name |-> "PaymentTriggered", to |-> reentrancy.payee,
                             amount |-> reentrancy.value]>>)
    /\ UNCHANGED <<products, pendingTransfers, identifierToAddress, addressToIdentifier,
                   productIdCounter, blockTimestamp>>

\* calls the paid account's code makes on the contract while it is being paid:
\* initiateTransfer and acceptTransfer are nonReentrant, cancelTransfer is not
payeeInitiateTransfer(productId, toIdentifier, quantity) ==
    nonReentrantReverts("initiateTransfer", reentrancy.payee)

payeeAcceptTransfer(transferId) ==
    nonReentrantReverts("acceptTransfer", reentrancy.payee)

payeeCancelTransfer(productId) ==
    /\ reentrancy.status = "ENTERED"
    /\ cancelTransfer(reentrancy.payee, productId)

\* ------------------------------------------------------------- ledger: blocks
\* a new block is mined: later transactions see a larger block.timestamp
NextBlock ==
    /\ blockTimestamp < MaxTime
    /\ blockTimestamp' = blockTimestamp + 1
    /\ UNCHANGED <<products, pendingTransfers, identifierToAddress, addressToIdentifier,
                   productIdCounter, receipt>>

NoReceipt == Receipt("none", NullAddress, NoError, FALSE, <<>>)

LedgerInit ==
    /\ products = <<>>
    /\ pendingTransfers = <<>>
    /\ identifierToAddress = [i \in Identifiers |-> NullAddress]
    /\ addressToIdentifier = [a \in Addresses \cup {NullAddress} |-> EmptyString]
    /\ productIdCounter = 0
    /\ blockTimestamp = 1
    /\ receipt = NoReceipt

\* createProduct inputs of the transfer protocol's specification: a valid batch
\* of MaxQty units and an empty one
ValidCreate ==
    [batch |-> "B1", type |-> "T1", origin |-> "O1", date |-> 1, quantity |-> MaxQty,
     price |-> 1]

CreateInputs == {ValidCreate, [ValidCreate EXCEPT !.quantity = 0]}

TxCreateProduct ==
    \E sender \in Addresses, in \in CreateInputs :
        createProduct(sender, in.batch, in.type, in.origin, in.date, in.quantity, in.price)

\* createProduct arguments: at most one of the three strings empty
CreateStrings ==
    {<<"B1", "T1", "O1">>, <<EmptyString, "T1", "O1">>, <<"B1", EmptyString, "O1">>,
     <<"B1", "T1", EmptyString>>}

\* production dates: zero, the block's timestamp, the second after it
CreateDates == {0, blockTimestamp, blockTimestamp + 1}

TxCreateAnyProduct ==
    \E sender \in {"a1", "a2"}, strings \in CreateStrings, date \in CreateDates,
       quantity \in 0..MaxQty, price \in {0, 1} :
        \* these callers bring at most MaxQty units into circulation
        /\ \/ createProductError(strings[1], strings[2], strings[3], date, quantity,
                                  price) # NoError
           \/ TotalQuantity + quantity <= MaxQty
        /\ createProduct(sender, strings[1], strings[2], strings[3], date, quantity, price)

TxRegisterUser ==
    \E sender \in Addresses, identifier \in ProtocolIdentifiers :
        registerUser(sender, identifier)

TxRegisterAnyUser ==
    \E sender \in Addresses, identifier \in Identifiers : registerUser(sender, identifier)

TxUpdateProductStatus ==
    \E sender \in Addresses, productId \in ProductIdInputs, newStatus \in StatusInputs :
        updateProductStatus(sender, productId, newStatus)

TxInitiateTransfer ==
    \E sender \in Addresses, productId \in ProductIdInputs, toIdentifier \in ProtocolIdentifiers,
       quantity \in 0..(MaxQty + 1) :
        initiateTransfer(sender, productId, toIdentifier, quantity)

TxAcceptTransfer ==
    \E sender \in Addresses, transferId \in ProductIdInputs : acceptTransfer(sender, transferId)

TxCancelTransfer ==
    \E sender \in Addresses, productId \in ProductIdInputs : cancelTransfer(sender, productId)

TxUpdateProductOwnerAddress ==
    \E sender \in Addresses, productId \in ProductIdInputs :
        updateProductOwnerAddress(sender, productId)

\* msg.value: nothing, the product's price times its quantity, or a unit less
PaymentValues(productId) ==
    LET due == ProductAt(productId).price * ProductAt(productId).quantity
    IN  {0, due} \cup (IF due > 1 THEN {due - 1} ELSE {})

TxTriggerPayment ==
    \E sender \in Addresses, productId \in ProductIdInputs :
        \E value \in PaymentValues(productId) :
            triggerPayment(sender, productId, value)

PayeeInitiatesTransfer ==
    \E productId \in ProductIdInputs, toIdentifier \in ProtocolIdentifiers,
       quantity \in 0..(MaxQty + 1) :
        payeeInitiateTransfer(productId, toIdentifier, quantity)

PayeeAcceptsTransfer == \E transferId \in ProductIdInputs : payeeAcceptTransfer(transferId)

PayeeCancelsTransfer == \E productId \in ProductIdInputs : payeeCancelTransfer(productId)

PaymentReturns == triggerPaymentReturns

\* --------------------------------------------- submission: nonceManager
NullNonce == -1

Calls == 1..MaxCalls

\* nonceManager.reset()
reset == nonce' = NullNonce

ReturnNonceNoIncrement(c, n) ==
    /\ txNonce' = [txNonce EXCEPT ![c] = n]
    /\ nonce' = n
    /\ issued' = Append(issued, n)

\* the synchronous tail of getNonce: `return this.nonce++` on counter value n
ReturnNonce(c, n) ==
    /\ txNonce' = [txNonce EXCEPT ![c] = n]
    /\ nonce' = n + 1
    /\ issued' = Append(issued, n)

\* sendTransaction is called: it awaits estimateGas
sendTransaction(c) ==
    /\ pc[c] = "idle"
    /\ pc' = [pc EXCEPT ![c] = "estimateGas"]
    /\ UNCHANGED <<nonce, transactionCount, count, txNonce, sent, issued>>

\* estimateGas resolves and getNonce runs up to its first await: with a null
\* counter it requests the transaction count, otherwise it returns nonce++
EstimateGasResolves(c) ==
    /\ pc[c] = "estimateGas"
    /\ IF nonce = NullNonce
       THEN /\ pc' = [pc EXCEPT ![c] = "getTransactionCount"]
            /\ UNCHANGED <<nonce, txNonce, issued>>
       ELSE /\ pc' = [pc EXCEPT ![c] = "signTransaction"]
            /\ ReturnNonce(c, nonce)
    /\ UNCHANGED <<transactionCount, count, sent>>

\* estimateGas rejects: the catch block resets the counter and rethrows
EstimateGasRejects(c) ==
    /\ pc[c] = "estimateGas"
    /\ pc' = [pc EXCEPT ![c] = "failed"]
    /\ reset
    /\ UNCHANGED <<transactionCount, count, txNonce, sent, issued>>

\* the node answers getTransactionCount with the mined count of that moment
GetTransactionCountReplies(c) ==
    /\ pc[c] = "getTransactionCount"
    /\ count[c] = NullNonce
    /\ count' = [count EXCEPT ![c] = transactionCount]
    /\ UNCHANGED <<nonce, transactionCount, pc, txNonce, sent, issued>>

\* getNonce resumes: this.nonce = <reply>; return this.nonce++
GetNonceResumes(c) ==
    /\ pc[c] = "getTransactionCount"
    /\ count[c] # NullNonce
    /\ ReturnNonce(c, count[c])
    /\ count' = [count EXCEPT ![c] = NullNonce]
    /\ pc' = [pc EXCEPT ![c] = "signTransaction"]
    /\ UNCHANGED <<transactionCount, sent>>

\* signTransaction resolves and the signed transaction is sent
SendSignedTransaction(c) ==
    /\ pc[c] = "signTransaction"
    /\ pc' = [pc EXCEPT ![c] = "sendSignedTransaction"]
    /\ sent' = [sent EXCEPT ![c] = sent[c] + 1]
    /\ UNCHANGED <<nonce, transactionCount, count, txNonce, issued>>

\* the transaction is mined (its nonce is the account's next one) and the
\* receipt is returned
ReceiptReturned(c) ==
    /\ pc[c] = "sendSignedTransaction"
    /\ txNonce[c] = transactionCount
    /\ transactionCount' = transactionCount + 1
    /\ pc' = [pc EXCEPT ![c] = "done"]
    /\ UNCHANGED <<nonce, count, txNonce, sent, issued>>

\* the transaction is mined but reverted: sendSignedTransaction rejects, the
\* catch block resets the counter
TransactionReverted(c) ==
    /\ pc[c] = "sendSignedTransaction"
    /\ txNonce[c] = transactionCount
    /\ transactionCount' = transactionCount + 1
    /\ pc' = [pc EXCEPT ![c] = "failed"]
    /\ reset
    /\ UNCHANGED <<count, txNonce, sent, issued>>

SendRejectedResubmits(c) ==
    /\ pc[c] = "sendSignedTransaction"
    /\ pc' = [pc EXCEPT ![c] = "signTransaction"]
    /\ reset
    /\ UNCHANGED <<transactionCount, count, txNonce, sent, issued>>

\* sendSignedTransaction rejects without the transaction being mined (nonce too
\* low, connection lost, no receipt in time): the catch block resets the counter
SendRejected(c) ==
    /\ pc[c] = "sendSignedTransaction"
    /\ pc' = [pc EXCEPT ![c] = "failed"]
    /\ reset
    /\ UNCHANGED <<transactionCount, count, txNonce, sent, issued>>

NonceInit ==
    /\ nonce = NullNonce
    /\ transactionCount = 0
    /\ pc = [c \in Calls |-> "idle"]
    /\ count = [c \in Calls |-> NullNonce]
    /\ txNonce = [c \in Calls |-> NullNonce]
    /\ sent = [c \in Calls |-> 0]
    /\ issued = <<>>

CallStarts == \E c \in Calls : sendTransaction(c)

EstimateResolves == \E c \in Calls : EstimateGasResolves(c)

EstimateRejects == \E c \in Calls : EstimateGasRejects(c)

CountReplies == \E c \in Calls : GetTransactionCountReplies(c)

NonceResumes == \E c \in Calls : GetNonceResumes(c)

TransactionSent == \E c \in Calls : SendSignedTransaction(c)

TransactionMined == \E c \in Calls : ReceiptReturned(c)

TransactionReverts == \E c \in Calls : TransactionReverted(c)

TransactionRejected == \E c \in Calls : SendRejected(c)

\* ----------------------------------- submission: callers that await each call
\* no call of sendTransaction is between its start and its return
NoCallInFlight == \A c \in Calls : pc[c] \in {"idle", "done", "failed"}

\* a caller that awaits every submission starts the next one after the return
SequentialCall == \E c \in Calls : NoCallInFlight /\ sendTransaction(c)

\* -------------------------------------- submission: distributorWeb3Service
\* acceptTransferOnBlockchain is called: checkPendingTransactions reads two
\* counts and logs, hashProductId is pure, then estimateGas is awaited
acceptTransferOnBlockchain(c) ==
    /\ pc[c] = "idle"
    /\ pc' = [pc EXCEPT ![c] = "estimateGas"]
    /\ UNCHANGED <<nonce, transactionCount, count, txNonce, sent, issued>>

\* estimateGas rejects: the catch block logs and returns {success: false};
\* the module's nonce is left as it is
estimateGasRejects(c) ==
    /\ pc[c] = "estimateGas"
    /\ pc' = [pc EXCEPT ![c] = "failed"]
    /\ UNCHANGED <<nonce, transactionCount, count, txNonce, sent, issued>>

\* estimateGas resolves and getNonce runs up to its first await: with a null
\* nonce it requests the transaction count, otherwise it returns nonce++ and
\* send is called with it
getNonce(c) ==
    /\ pc[c] = "estimateGas"
    /\ IF nonce = NullNonce
       THEN /\ pc' = [pc EXCEPT ![c] = "getTransactionCount"]
            /\ UNCHANGED <<nonce, txNonce, issued, sent>>
       ELSE /\ pc' = [pc EXCEPT ![c] = "send"]
            /\ ReturnNonce(c, nonce)
            /\ sent' = [sent EXCEPT ![c] = sent[c] + 1]
    /\ UNCHANGED <<transactionCount, count>>

\* getNonce resumes with the reply: nonce = <reply>; return nonce++; send is
\* called with it
getNonceResumes(c) ==
    /\ pc[c] = "getTransactionCount"
    /\ count[c] # NullNonce
    /\ ReturnNonce(c, count[c])
    /\ count' = [count EXCEPT ![c] = NullNonce]
    /\ pc' = [pc EXCEPT ![c] = "send"]
    /\ sent' = [sent EXCEPT ![c] = sent[c] + 1]
    /\ UNCHANGED transactionCount

\* the transaction is mined and send resolves: {success: true, txHash}
sendResolves(c) ==
    /\ pc[c] = "send"
    /\ txNonce[c] = transactionCount
    /\ transactionCount' = transactionCount + 1
    /\ pc' = [pc EXCEPT ![c] = "done"]
    /\ UNCHANGED <<nonce, count, txNonce, sent, issued>>

\* the transaction is mined but reverted: send rejects, the catch block returns
\* {success: false}
sendReverts(c) ==
    /\ pc[c] = "send"
    /\ txNonce[c] = transactionCount
    /\ transactionCount' = transactionCount + 1
    /\ pc' = [pc EXCEPT ![c] = "failed"]
    /\ UNCHANGED <<nonce, count, txNonce, sent, issued>>

\* send rejects without the transaction being mined: the catch block returns
\* {success: false}
sendRejects(c) ==
    /\ pc[c] = "send"
    /\ pc' = [pc EXCEPT ![c] = "failed"]
    /\ UNCHANGED <<nonce, transactionCount, count, txNonce, sent, issued>>

DistributorCallStarts == \E c \in Calls : acceptTransferOnBlockchain(c)

DistributorEstimateRejects == \E c \in Calls : estimateGasRejects(c)

DistributorGetNonce == \E c \in Calls : getNonce(c)

DistributorCountReplies == \E c \in Calls : GetTransactionCountReplies(c)

DistributorNonceResumes == \E c \in Calls : getNonceResumes(c)

DistributorSendResolves == \E c \in Calls : sendResolves(c)

DistributorSendReverts == \E c \in Calls : sendReverts(c)

DistributorSendRejects == \E c \in Calls : sendRejects(c)

\* ---------------------------------------------------------- mirror: documents
\* the two participants of the mirrored transfer; a User document is identified
\* with the ethereumAddress it signs with
Farmer == "a1"
Distributor == "a2"
DistributorIdentifier == "idA"

\* blockchainId of the mirror Product: the first id the contract issues
BlockchainId == CounterId(1)

\* hash of the i-th submitted transaction; no hash is a product id
TxHash(i) == <<"tx", i>>

NoMirrorProduct == [currentOwner |-> NullAddress, quantity |-> 0, ownershipHistory |-> <<>>]

\* enum of transferSchema.status: a save with any other value is rejected
TransferStatusEnum == {"pending", "accepted", "completed", "cancelled"}

\* quantities a request or a wallet asks to transfer: a part, or the whole batch
TransferQuantities == {1, MaxQty}

\* values a client posts as blockchainTx: the hash of a submitted transaction or
\* the product's ledger id (the id acceptTransfer expects as _transferId)
BlockchainTxInputs == {TxHash(i) : i \in 1..Len(txs)} \cup {BlockchainId}

\* no accept request was made yet
NoAccept == [request |-> 0, sent |-> FALSE]

MirrorInit ==
    /\ mirrorProduct = NoMirrorProduct
    /\ transfers = <<>>
    /\ txs = <<>>
    /\ lastAccept = NoAccept

\* ------------------------------------------- mirror: Web3Service.checkTransferStatus
\* web3.eth.getTransactionReceipt: null until the transaction is mined
HasReceipt(txHash) ==
    \E i \in 1..Len(txs) : txHash = TxHash(i) /\ txs[i].status # "unmined"

ReceiptOf(txHash) == txs[CHOOSE i \in 1..Len(txs) : txHash = TxHash(i)]

\* checkTransferStatus with a missing receipt reported as failed
checkTransferStatusNoReceiptFailed(txHash) ==
    IF ~HasReceipt(txHash) THEN "failed"
    ELSE IF ReceiptOf(txHash).status = "success"
         THEN IF ReceiptOf(txHash).event = "TransferAccepted" THEN "completed"
              ELSE IF ReceiptOf(txHash).event = "TransferInitiated" THEN "pending_acceptance"
              ELSE "completed"
         ELSE "failed"

checkTransferStatus(txHash) ==
    IF ~HasReceipt(txHash) THEN "pending"
    ELSE IF ReceiptOf(txHash).status = "success"
         THEN IF ReceiptOf(txHash).event = "TransferAccepted" THEN "completed"
              ELSE IF ReceiptOf(txHash).event = "TransferInitiated" THEN "pending_acceptance"
              ELSE "completed"
         ELSE "failed"

\* ------------------------------------------------ mirror: the farmer's wallet
\* the farmer's wallet submits initiateTransfer(BlockchainId, "idA", quantity)
SubmitInitiateTransfer(quantity) ==
    /\ Len(txs) < MaxSubmissions
    /\ txs' = Append(txs, [status |-> "unmined", quantity |-> quantity, event |-> "none"])
    /\ UNCHANGED <<ledgerVars, mirrorProduct, transfers, lastAccept>>

\* the transaction is mined: it runs initiateTransfer, or runs out of the gas
\* the sender allowed and reverts; the receipt holds the status and the logs
MineInitiateTransfer(i, outOfGas) ==
    /\ i \in 1..Len(txs)
    /\ txs[i].status = "unmined"
    /\ IF outOfGas
       THEN Revert("initiateTransfer", Farmer, "out of gas")
       ELSE initiateTransfer(Farmer, BlockchainId, DistributorIdentifier, txs[i].quantity)
    /\ txs' = [txs EXCEPT ![i] =
                  [status |-> receipt'.status, quantity |-> 0,
                   event |-> IF receipt'.events = <<>> THEN "none"
                             ELSE receipt'.events[1].name]]
    /\ UNCHANGED <<mirrorProduct, transfers, lastAccept>>

\* ------------------------------------------------------- mirror: farmer routes
\* POST /products of the farmer dashboard: the Product document is created
RouteRegisterProduct(user) ==
    /\ mirrorProduct = NoMirrorProduct
    /\ mirrorProduct' = [currentOwner |-> user, quantity |-> ValidCreate.quantity,
                         ownershipHistory |-> <<>>]
    /\ UNCHANGED <<ledgerVars, transfers, txs, lastAccept>>

\* POST /initiateTransfer of the farmer dashboard
RouteInitiateTransfer(user, quantity, blockchainTx) ==
    /\ Len(transfers) < MaxTransfers
    /\ mirrorProduct # NoMirrorProduct
    /\ IF mirrorProduct.currentOwner # user \/ mirrorProduct.quantity < quantity
       THEN UNCHANGED <<mirrorProduct, transfers>>
       ELSE /\ mirrorProduct' = [mirrorProduct EXCEPT !.quantity = @ - quantity]
            /\ transfers' = Append(transfers,
                   [fromUser |-> user, toUser |-> Distributor, quantity |-> quantity,
                    status |-> "pending", blockchainTx |-> blockchainTx,
                    \* history: the Product's quantity when the route was entered
                    quantityBefore |-> mirrorProduct.quantity])
    /\ UNCHANGED <<ledgerVars, txs, lastAccept>>

\* POST /cancelTransfer/:transferId of the farmer dashboard
RouteCancelTransfer(user, i) ==
    /\ i \in 1..Len(transfers)
    /\ IF ~(transfers[i].fromUser = user /\ transfers[i].status = "pending")
       THEN UNCHANGED <<mirrorProduct, transfers>>
       ELSE /\ transfers' = [transfers EXCEPT ![i].status = "cancelled"]
            /\ mirrorProduct' = IF mirrorProduct # NoMirrorProduct
                                THEN [mirrorProduct EXCEPT !.quantity = @ + transfers[i].quantity]
                                ELSE mirrorProduct
    /\ UNCHANGED <<ledgerVars, txs, lastAccept>>

\* syncProduct of the dashboards: the Product's quantity is overwritten with the
\* ledger's
RouteSyncProduct(user) ==
    /\ mirrorProduct # NoMirrorProduct
    /\ IF mirrorProduct.currentOwner = user /\ productExists(BlockchainId)
       THEN mirrorProduct' = [mirrorProduct EXCEPT !.quantity = ProductAt(BlockchainId).quantity]
       ELSE UNCHANGED mirrorProduct
    /\ UNCHANGED <<ledgerVars, transfers, txs, lastAccept>>

\* PUT /updateProduct/:productId of the distributor dashboard, once
\* updateProductInfoOnBlockchain has answered: the owner's fields are updated
\* and the owner is pushed to ownershipHistory unless the last entry names it
RouteUpdateProduct(user, success) ==
    /\ mirrorProduct # NoMirrorProduct
    /\ LET history == mirrorProduct.ownershipHistory
       IN  IF mirrorProduct.currentOwner = user /\ success
              /\ (history = <<>> \/ history[Len(history)] # user)
           THEN mirrorProduct' = [mirrorProduct EXCEPT !.ownershipHistory = Append(@, user)]
           ELSE UNCHANGED mirrorProduct
    /\ UNCHANGED <<ledgerVars, transfers, txs, lastAccept>>

\* ------------------------------------------------------- mirror: accept routes
\* acceptTransferOnBlockchain / acceptTransferAsRetailer reach send: a pending
\* transfer is recorded under the id and estimateGas does not reject
acceptTransferOnBlockchainSends(transferId, address) ==
    /\ PendingAt(transferId).quantity # 0
    /\ acceptTransferError(address, transferId) = NoError

\* what becomes of the acceptTransfer transaction once sent: mined and its
\* receipt returned; mined but the receipt never reached the backend (timeout,
\* connection lost); not mined
SendOutcomes == {"confirmed", "unseen", "lost"}

\* blockchainResult.success taken as true whenever the transaction was sent
blockchainResultSuccessAnyOutcome(outcome) == outcome \in SendOutcomes

\* blockchainResult.success: send resolved with the receipt
blockchainResultSuccess(outcome) == outcome = "confirmed"

\* transfer.status = status; await transfer.save(): the schema's enum validator
\* rejects a value outside TransferStatusEnum and nothing is stored
SaveTransferStatus(i, status) ==
    IF status \in TransferStatusEnum
    THEN [transfers EXCEPT ![i].status = status]
    ELSE transfers

\* product.currentOwner = req.user.id; product.quantity = transfer.quantity
AcceptedProduct(user, transfer) ==
    [mirrorProduct EXCEPT !.currentOwner = user, !.quantity = transfer.quantity]

\* the request as it is remembered: its number (modulo 2, so that a request
\* differs from the one before it) and whether it sent an acceptTransfer
\* transaction
AcceptRequest(didSend) ==
    [request |-> (lastAccept.request + 1) % 2, sent |-> didSend]

\* POST /acceptTransfer/:transferId of the distributor and retailer dashboards
RouteAcceptTransfer(route, user, i, outcome) ==
    /\ i \in 1..Len(transfers)
    /\ transfers[i].toUser = user
    /\ LET transfer == transfers[i]
           transferStatus == checkTransferStatus(transfer.blockchainTx)
       IN  IF transferStatus = "completed"
           THEN /\ transfers' = SaveTransferStatus(i, "completed")
                /\ mirrorProduct' = IF mirrorProduct.currentOwner # user
                                    THEN AcceptedProduct(user, transfer)
                                    ELSE mirrorProduct
                /\ lastAccept' = AcceptRequest(FALSE)
                /\ UNCHANGED ledgerVars
           ELSE IF transferStatus = "failed"
           THEN /\ transfers' = SaveTransferStatus(i, "failed")
                /\ lastAccept' = AcceptRequest(FALSE)
                /\ UNCHANGED <<mirrorProduct, ledgerVars>>
           ELSE IF route = "distributor" /\ transferStatus # "pending"
           THEN /\ lastAccept' = AcceptRequest(FALSE)
                /\ UNCHANGED <<transfers, mirrorProduct, ledgerVars>>
           ELSE IF ~acceptTransferOnBlockchainSends(transfer.blockchainTx, user)
           THEN /\ lastAccept' = AcceptRequest(FALSE)
                /\ UNCHANGED <<transfers, mirrorProduct, ledgerVars>>
           ELSE /\ lastAccept' = AcceptRequest(TRUE)
                /\ IF outcome = "lost"
                   THEN UNCHANGED ledgerVars
                   ELSE acceptTransfer(user, transfer.blockchainTx)
                /\ IF blockchainResultSuccess(outcome)
                   THEN /\ transfers' = SaveTransferStatus(i, "completed")
                        /\ mirrorProduct' = AcceptedProduct(user, transfer)
                   ELSE UNCHANGED <<transfers, mirrorProduct>>
    /\ UNCHANGED txs

\* ------------------------------------------------- mirror: the retailer's sale
\* account.address: the account the backend signs sendTransaction calls with
BackendAccount == "a1"
Retailer == "a2"
Consumer == "a3"
ConsumerIdentifier == "idB"

\* POST /initiateTransferToConsumer of the retailer dashboard.  The call of
\* initiateRetailerToConsumerTransfer submits initiateTransfer from the backend's
\* account: estimateGas resolves (initiateTransfer reports a failed check with a
\* TransferError event, it does not revert) and the receipt of a mined
\* transaction has status true, so success is true whenever the receipt came
\* back; recordSaleToConsumer, which follows, writes nothing modelled here.
RouteInitiateTransferToConsumer(user, quantity, outcome) ==
    /\ Len(txs) < MaxSubmissions
    /\ Len(transfers) < MaxTransfers
    /\ mirrorProduct # NoMirrorProduct
    /\ IF mirrorProduct.currentOwner # user \/ mirrorProduct.quantity < quantity
       THEN UNCHANGED <<ledgerVars, mirrorProduct, transfers, txs>>
       ELSE /\ IF outcome = "lost"
               THEN /\ UNCHANGED ledgerVars
                    /\ txs' = Append(txs, [status |-> "unmined", quantity |-> quantity,
                                           event |-> "none"])
               ELSE /\ initiateTransfer(BackendAccount, BlockchainId, ConsumerIdentifier,
                                        quantity)
                    /\ txs' = Append(txs, [status |-> receipt'.status, quantity |-> 0,
                                           event |-> receipt'.events[1].name])
            /\ IF blockchainResultSuccess(outcome)
               THEN /\ transfers' = Append(transfers,
                           [fromUser |-> user, toUser |-> Consumer, quantity |-> quantity,
                            status |-> "completed", blockchainTx |-> TxHash(Len(txs) + 1),
                            quantityBefore |-> mirrorProduct.quantity])
                    /\ mirrorProduct' = [mirrorProduct EXCEPT !.quantity = @ - quantity]
               ELSE UNCHANGED <<transfers, mirrorProduct>>
    /\ UNCHANGED lastAccept

\* the batch is created on the ledger by the backend's account (the backend's
\* register-product path) or by the retailer's own wallet
SaleCreatesProduct ==
    \E sender \in {BackendAccount, Retailer} :
        createProduct(sender, ValidCreate.batch, ValidCreate.type, ValidCreate.origin,
                      ValidCreate.date, ValidCreate.quantity, ValidCreate.price)

ConsumerRegisters == registerUser(Consumer, ConsumerIdentifier)

\* the consumer's wallet accepts the pending transfer of the batch
ConsumerAccepts == acceptTransfer(Consumer, BlockchainId)

RetailerRegistersProduct == RouteRegisterProduct(Retailer)

RetailerSells ==
    \E quantity \in TransferQuantities, outcome \in SendOutcomes :
        RouteInitiateTransferToConsumer(Retailer, quantity, outcome)

\* ------------------------------------- mirror: initiate requests, await by await
Requests == 1..MaxRequests

IdleRequest == [pc |-> "idle", quantity |-> 0, product |-> NoMirrorProduct]

RequestsInit == requests = [r \in Requests |-> IdleRequest]

\* POST /initiateTransfer up to `await User.findOne`: Product.findById resolves
\* with the stored document, which the handler keeps, and the checks on owner
\* and quantity are made on it
InitiateTransferFinds(r, user, quantity) ==
    /\ requests[r].pc = "idle"
    /\ requests' = [requests EXCEPT ![r] =
          IF \/ mirrorProduct = NoMirrorProduct
             \/ mirrorProduct.currentOwner # user
             \/ mirrorProduct.quantity < quantity
          THEN [pc |-> "rejected", quantity |-> quantity, product |-> NoMirrorProduct]
          ELSE [pc |-> "found", quantity |-> quantity, product |-> mirrorProduct]]
    /\ UNCHANGED <<mirrorProduct, transfers, txs, lastAccept>>

\* product.quantity -= quantity; await product.save(): the quantity computed on
\* the loaded document is written to the stored one
InitiateTransferSavesProduct(r) ==
    /\ requests[r].pc = "found"
    /\ mirrorProduct' = [mirrorProduct EXCEPT
                            !.quantity = requests[r].product.quantity - requests[r].quantity]
    /\ requests' = [requests EXCEPT ![r].pc = "saved"]
    /\ UNCHANGED <<transfers, txs, lastAccept>>

\* await transfer.save() and the response
InitiateTransferSavesTransfer(r, user, blockchainTx) ==
    /\ requests[r].pc = "saved"
    /\ transfers' = Append(transfers,
           [fromUser |-> user, toUser |-> Distributor, quantity |-> requests[r].quantity,
            status |-> "pending", blockchainTx |-> blockchainTx,
            quantityBefore |-> requests[r].product.quantity])
    /\ requests' = [requests EXCEPT ![r].pc = "done"]
    /\ UNCHANGED <<mirrorProduct, txs, lastAccept>>

InitiateFinds ==
    \E r \in Requests, user \in {Farmer, Distributor}, quantity \in 1..MaxQty :
        InitiateTransferFinds(r, user, quantity)

InitiateSavesProduct == \E r \in Requests : InitiateTransferSavesProduct(r)

InitiateSavesTransfer ==
    \E r \in Requests : InitiateTransferSavesTransfer(r, requests[r].product.currentOwner, BlockchainId)

\* ------------------------------------- browser: waitForTransactionReceipt
\* no call was made yet
NoWait ==
    [pc |-> "idle", maxAttempts |-> 0, attempts |-> 0, polls |-> 0, mined |-> "unmined",
     result |-> "none"]

WaitInit == wait = NoWait

\* else if (attempts <= maxAttempts): one more poll than the code makes
moreAttemptsInclusive(attempts, maxAttempts) == attempts <= maxAttempts

\* else if (attempts < maxAttempts)
moreAttempts(attempts, maxAttempts) == attempts < maxAttempts

\* checkReceipt(): web3.eth.getTransactionReceipt(txHash) is called
checkReceipt == [wait EXCEPT !.pc = "query", !.polls = @ + 1]

\* waitForTransactionReceipt(txHash, maxAttempts): attempts = 0; checkReceipt()
waitForTransactionReceipt(maxAttempts) ==
    /\ wait.pc = "idle"
    /\ wait' = [checkReceipt EXCEPT !.maxAttempts = maxAttempts, !.attempts = 0]

\* the transaction is mined, with status true or false
TransactionIsMined(status) ==
    /\ wait.mined = "unmined"
    /\ wait' = [wait EXCEPT !.mined = status]

\* .then(receipt => ...) with a receipt: resolve(receipt)
ReceiptFound ==
    /\ wait.pc = "query"
    /\ wait.mined # "unmined"
    /\ wait' = [wait EXCEPT !.pc = "resolved", !.result = wait.mined]

\* .then(receipt => ...) with null: another attempt after 2 seconds, or
\* reject(new Error('Transaction not mined within the expected time'))
ReceiptNull ==
    /\ wait.pc = "query"
    /\ wait.mined = "unmined"
    /\ IF moreAttempts(wait.attempts, wait.maxAttempts)
       THEN wait' = [wait EXCEPT !.attempts = @ + 1, !.pc = "timer"]
       ELSE wait' = [wait EXCEPT !.pc = "rejected", !.result = "not mined"]

\* .catch(reject): the query itself failed
QueryRejected ==
    /\ wait.pc = "query"
    /\ wait' = [wait EXCEPT !.pc = "rejected", !.result = "query error"]

\* setTimeout(checkReceipt, 2000) fires
TimerFires ==
    /\ wait.pc = "timer"
    /\ wait' = checkReceipt

WaitStarts == \E maxAttempts \in 0..MaxAttempts : waitForTransactionReceipt(maxAttempts)

TransactionGetsMined == \E status \in {"true", "false"} : TransactionIsMined(status)

\* the reply of a receipt query
QueryReturns == ReceiptFound \/ ReceiptNull \/ QueryRejected

\* ---------------------------------------------------- mirror: the environment
FarmerCreatesProduct ==
    createProduct(Farmer, ValidCreate.batch, ValidCreate.type, ValidCreate.origin,
                  ValidCreate.date, ValidCreate.quantity, ValidCreate.price)

DistributorRegisters == registerUser(Distributor, DistributorIdentifier)

FarmerSubmitsInitiate == \E quantity \in TransferQuantities : SubmitInitiateTransfer(quantity)

InitiateMined == \E i \in 1..MaxSubmissions, outOfGas \in BOOLEAN : MineInitiateTransfer(i, outOfGas)

\* the distributor's wallet sends acceptTransfer itself
DistributorAccepts == acceptTransfer(Distributor, BlockchainId)

FarmerRegistersProduct == RouteRegisterProduct(Farmer)

FarmerInitiates ==
    \E quantity \in TransferQuantities, blockchainTx \in BlockchainTxInputs :
        RouteInitiateTransfer(Farmer, quantity, blockchainTx)

FarmerCancels == \E i \in 1..MaxTransfers : RouteCancelTransfer(Farmer, i)

OwnerSyncs == \E user \in {Farmer, Distributor} : RouteSyncProduct(user)

OwnerUpdates ==
    \E user \in {Farmer, Distributor}, success \in BOOLEAN : RouteUpdateProduct(user, success)

RecipientAccepts ==
    \E route \in {"distributor", "retailer"}, i \in 1..MaxTransfers, outcome \in SendOutcomes :
        RouteAcceptTransfer(route, Distributor, i, outcome)

\* ------------------------------------------------------------ specifications
vars == <<ledgerVars, nonceVars, mirrorVars, requests, reentrancy, wait>>

Init ==
    LedgerInit /\ NonceInit /\ MirrorInit /\ RequestsInit /\ ReentrancyInit /\ WaitInit

\* the ledger under transactions sent directly by the participants
Next ==
    \/ TxCreateProduct /\ UNCHANGED <<nonceVars, mirrorVars, requests, reentrancy, wait>>
    \/ TxRegisterUser /\ UNCHANGED <<nonceVars, mirrorVars, requests, reentrancy, wait>>
    \/ TxInitiateTransfer /\ UNCHANGED <<nonceVars, mirrorVars, requests, reentrancy, wait>>
    \/ TxAcceptTransfer /\ UNCHANGED <<nonceVars, mirrorVars, requests, reentrancy, wait>>
    \/ TxCancelTransfer /\ UNCHANGED <<nonceVars, mirrorVars, requests, reentrancy, wait>>
    \/ TxUpdateProductOwnerAddress /\ UNCHANGED <<nonceVars, mirrorVars, requests, reentrancy, wait>>
    \/ NextBlock /\ UNCHANGED <<nonceVars, mirrorVars, requests, reentrancy, wait>>

Spec == Init /\ [][Next]_vars

\* the backend's submissions on its signing account
NextNonce ==
    \/ CallStarts /\ UNCHANGED <<ledgerVars, mirrorVars, requests, reentrancy, wait>>
    \/ EstimateResolves /\ UNCHANGED <<ledgerVars, mirrorVars, requests, reentrancy, wait>>
    \/ EstimateRejects /\ UNCHANGED <<ledgerVars, mirrorVars, requests, reentrancy, wait>>
    \/ CountReplies /\ UNCHANGED <<ledgerVars, mirrorVars, requests, reentrancy, wait>>
    \/ NonceResumes /\ UNCHANGED <<ledgerVars, mirrorVars, requests, reentrancy, wait>>
    \/ TransactionSent /\ UNCHANGED <<ledgerVars, mirrorVars, requests, reentrancy, wait>>
    \/ TransactionMined /\ UNCHANGED <<ledgerVars, mirrorVars, requests, reentrancy, wait>>
    \/ TransactionReverts /\ UNCHANGED <<ledgerVars, mirrorVars, requests, reentrancy, wait>>
    \/ TransactionRejected /\ UNCHANGED <<ledgerVars, mirrorVars, requests, reentrancy, wait>>

SpecNonce == Init /\ [][NextNonce]_vars

\* the identifier registry under registrations of any identifier, the empty
\* string included, while blocks are mined
NextRegistry ==
    \/ TxRegisterAnyUser /\ UNCHANGED <<nonceVars, mirrorVars, requests, reentrancy, wait>>
    \/ NextBlock /\ UNCHANGED <<nonceVars, mirrorVars, requests, reentrancy, wait>>

SpecRegistry == Init /\ [][NextRegistry]_vars

\* the backend's submissions when every caller awaits its call before the next
NextSequential ==
    \/ SequentialCall /\ UNCHANGED <<ledgerVars, mirrorVars, requests, reentrancy, wait>>
    \/ EstimateResolves /\ UNCHANGED <<ledgerVars, mirrorVars, requests, reentrancy, wait>>
    \/ EstimateRejects /\ UNCHANGED <<ledgerVars, mirrorVars, requests, reentrancy, wait>>
    \/ CountReplies /\ UNCHANGED <<ledgerVars, mirrorVars, requests, reentrancy, wait>>
    \/ NonceResumes /\ UNCHANGED <<ledgerVars, mirrorVars, requests, reentrancy, wait>>
    \/ TransactionSent /\ UNCHANGED <<ledgerVars, mirrorVars, requests, reentrancy, wait>>
    \/ TransactionMined /\ UNCHANGED <<ledgerVars, mirrorVars, requests, reentrancy, wait>>
    \/ TransactionReverts /\ UNCHANGED <<ledgerVars, mirrorVars, requests, reentrancy, wait>>
    \/ TransactionRejected /\ UNCHANGED <<ledgerVars, mirrorVars, requests, reentrancy, wait>>

SpecSequential == Init /\ [][NextSequential]_vars

\* the distributor service's submissions on its signing account
NextDistributor ==
    \/ DistributorCallStarts /\ UNCHANGED <<ledgerVars, mirrorVars, requests, reentrancy, wait>>
    \/ DistributorEstimateRejects /\ UNCHANGED <<ledgerVars, mirrorVars, requests, reentrancy, wait>>
    \/ DistributorGetNonce /\ UNCHANGED <<ledgerVars, mirrorVars, requests, reentrancy, wait>>
    \/ DistributorCountReplies /\ UNCHANGED <<ledgerVars, mirrorVars, requests, reentrancy, wait>>
    \/ DistributorNonceResumes /\ UNCHANGED <<ledgerVars, mirrorVars, requests, reentrancy, wait>>
    \/ DistributorSendResolves /\ UNCHANGED <<ledgerVars, mirrorVars, requests, reentrancy, wait>>
    \/ DistributorSendReverts /\ UNCHANGED <<ledgerVars, mirrorVars, requests, reentrancy, wait>>
    \/ DistributorSendRejects /\ UNCHANGED <<ledgerVars, mirrorVars, requests, reentrancy, wait>>

SpecDistributor == Init /\ [][NextDistributor]_vars

\* the mirror next to the ledger: one batch, its farmer and one distributor
NextMirror ==
    \/ FarmerCreatesProduct /\ UNCHANGED <<nonceVars, mirrorVars, requests, reentrancy, wait>>
    \/ DistributorRegisters /\ UNCHANGED <<nonceVars, mirrorVars, requests, reentrancy, wait>>
    \/ DistributorAccepts /\ UNCHANGED <<nonceVars, mirrorVars, requests, reentrancy, wait>>
    \/ FarmerSubmitsInitiate /\ UNCHANGED <<nonceVars, requests, reentrancy, wait>>
    \/ InitiateMined /\ UNCHANGED <<nonceVars, requests, reentrancy, wait>>
    \/ FarmerRegistersProduct /\ UNCHANGED <<nonceVars, requests, reentrancy, wait>>
    \/ FarmerInitiates /\ UNCHANGED <<nonceVars, requests, reentrancy, wait>>
    \/ FarmerCancels /\ UNCHANGED <<nonceVars, requests, reentrancy, wait>>
    \/ OwnerSyncs /\ UNCHANGED <<nonceVars, requests, reentrancy, wait>>
    \/ OwnerUpdates /\ UNCHANGED <<nonceVars, requests, reentrancy, wait>>
    \/ RecipientAccepts /\ UNCHANGED <<nonceVars, requests, reentrancy, wait>>

SpecMirror == Init /\ [][NextMirror]_vars

\* the retailer's sale to a consumer next to the ledger
NextSale ==
    \/ SaleCreatesProduct /\ UNCHANGED <<nonceVars, mirrorVars, requests, reentrancy, wait>>
    \/ ConsumerRegisters /\ UNCHANGED <<nonceVars, mirrorVars, requests, reentrancy, wait>>
    \/ ConsumerAccepts /\ UNCHANGED <<nonceVars, mirrorVars, requests, reentrancy, wait>>
    \/ NextBlock /\ UNCHANGED <<nonceVars, mirrorVars, requests, reentrancy, wait>>
    \/ RetailerRegistersProduct /\ UNCHANGED <<nonceVars, requests, reentrancy, wait>>
    \/ RetailerSells /\ UNCHANGED <<nonceVars, requests, reentrancy, wait>>

SpecSale == Init /\ [][NextSale]_vars

\* initiate requests on one mirror Product, interleaved at their awaits
NextConcurrent ==
    \/ FarmerRegistersProduct /\ UNCHANGED <<nonceVars, requests, reentrancy, wait>>
    \/ InitiateFinds /\ UNCHANGED <<ledgerVars, nonceVars, reentrancy, wait>>
    \/ InitiateSavesProduct /\ UNCHANGED <<ledgerVars, nonceVars, reentrancy, wait>>
    \/ InitiateSavesTransfer /\ UNCHANGED <<ledgerVars, nonceVars, reentrancy, wait>>

SpecConcurrent == Init /\ [][NextConcurrent]_vars

\* the ledger with the payee of triggerPayment running code of its own while
\* the payment is being made
NextReentrancy ==
    \/ TopLevel /\ TxCreateProduct /\ UNCHANGED <<nonceVars, mirrorVars, requests, reentrancy, wait>>
    \/ TopLevel /\ TxRegisterUser /\ UNCHANGED <<nonceVars, mirrorVars, requests, reentrancy, wait>>
    \/ TopLevel /\ TxUpdateProductStatus
          /\ UNCHANGED <<nonceVars, mirrorVars, requests, reentrancy, wait>>
    \/ TopLevel /\ TxInitiateTransfer /\ UNCHANGED <<nonceVars, mirrorVars, requests, reentrancy, wait>>
    \/ TopLevel /\ TxAcceptTransfer /\ UNCHANGED <<nonceVars, mirrorVars, requests, reentrancy, wait>>
    \/ TopLevel /\ TxCancelTransfer /\ UNCHANGED <<nonceVars, mirrorVars, requests, reentrancy, wait>>
    \/ TxTriggerPayment /\ UNCHANGED <<nonceVars, mirrorVars, requests, wait>>
    \/ PayeeInitiatesTransfer /\ UNCHANGED <<nonceVars, mirrorVars, requests, reentrancy, wait>>
    \/ PayeeAcceptsTransfer /\ UNCHANGED <<nonceVars, mirrorVars, requests, reentrancy, wait>>
    \/ PayeeCancelsTransfer /\ UNCHANGED <<nonceVars, mirrorVars, requests, reentrancy, wait>>
    \/ PaymentReturns /\ UNCHANGED <<nonceVars, mirrorVars, requests, wait>>

SpecReentrancy == Init /\ [][NextReentrancy]_vars

\* the ledger under transactions of the product lifecycle: creation, status
\* updates and the transfer protocol, while blocks are mined
NextLifecycle ==
    \/ TxCreateProduct /\ UNCHANGED <<nonceVars, mirrorVars, requests, reentrancy, wait>>
    \/ TxRegisterUser /\ UNCHANGED <<nonceVars, mirrorVars, requests, reentrancy, wait>>
    \/ TxUpdateProductStatus /\ UNCHANGED <<nonceVars, mirrorVars, requests, reentrancy, wait>>
    \/ TxInitiateTransfer /\ UNCHANGED <<nonceVars, mirrorVars, requests, reentrancy, wait>>
    \/ TxAcceptTransfer /\ UNCHANGED <<nonceVars, mirrorVars, requests, reentrancy, wait>>
    \/ TxCancelTransfer /\ UNCHANGED <<nonceVars, mirrorVars, requests, reentrancy, wait>>
    \/ NextBlock /\ UNCHANGED <<nonceVars, mirrorVars, requests, reentrancy, wait>>

SpecLifecycle == Init /\ [][NextLifecycle]_vars

\* the ledger under createProduct calls with any arguments
NextCreate ==
    TxCreateAnyProduct /\ UNCHANGED <<nonceVars, mirrorVars, requests, reentrancy, wait>>

SpecCreate == Init /\ [][NextCreate]_vars

\* the ledger under status updates to any status, next to the transfers that
\* change a product's owner; two accounts take part
StatusSenders == {"a1", "a2"}

StatusCreateProduct ==
    \E in \in CreateInputs :
        createProduct("a1", in.batch, in.type, in.origin, in.date, in.quantity, in.price)

StatusRegisterUser == registerUser("a2", "idA")

TxUpdateProductAnyStatus ==
    \E sender \in StatusSenders, productId \in ProductIdInputs, newStatus \in Statuses :
        updateProductStatus(sender, productId, newStatus)

StatusInitiateTransfer ==
    \E sender \in StatusSenders, productId \in ProductIdInputs,
       quantity \in TransferQuantities :
        initiateTransfer(sender, productId, "idA", quantity)

StatusAcceptTransfer ==
    \E sender \in StatusSenders, transferId \in ProductIdInputs :
        acceptTransfer(sender, transferId)

NextStatus ==
    \/ StatusCreateProduct /\ UNCHANGED <<nonceVars, mirrorVars, requests, reentrancy, wait>>
    \/ StatusRegisterUser /\ UNCHANGED <<nonceVars, mirrorVars, requests, reentrancy, wait>>
    \/ TxUpdateProductAnyStatus /\ UNCHANGED <<nonceVars, mirrorVars, requests, reentrancy, wait>>
    \/ StatusInitiateTransfer /\ UNCHANGED <<nonceVars, mirrorVars, requests, reentrancy, wait>>
    \/ StatusAcceptTransfer /\ UNCHANGED <<nonceVars, mirrorVars, requests, reentrancy, wait>>

SpecStatus == Init /\ [][NextStatus]_vars

\* the transfer protocol on a batch of MaxUnits units between its creator and two
\* registered recipients, who pass on what they accepted, all in one block
PendingRegistrations == {<<"a2", "idA">>, <<"a3", "idB">>}

PendingCreateProduct ==
    createProduct("a1", ValidCreate.batch, ValidCreate.type, ValidCreate.origin,
                  ValidCreate.date, MaxUnits, ValidCreate.price)

PendingRegisterUser ==
    \E reg \in PendingRegistrations : registerUser(reg[1], reg[2])

PendingInitiateTransfer ==
    \E sender \in {"a1", "a2"}, productId \in ProductIdInputs, toIdentifier \in {"idA", "idB"},
       quantity \in 1..(MaxUnits - 1) :
        initiateTransfer(sender, productId, toIdentifier, quantity)

PendingAcceptTransfer ==
    \E sender \in {"a2", "a3"}, transferId \in ProductIdInputs :
        acceptTransfer(sender, transferId)

PendingCancelTransfer ==
    \E sender \in {"a1", "a2"}, productId \in ProductIdInputs :
        cancelTransfer(sender, productId)

NextPending ==
    \/ PendingCreateProduct /\ UNCHANGED <<nonceVars, mirrorVars, requests, reentrancy, wait>>
    \/ PendingRegisterUser /\ UNCHANGED <<nonceVars, mirrorVars, requests, reentrancy, wait>>
    \/ PendingInitiateTransfer /\ UNCHANGED <<nonceVars, mirrorVars, requests, reentrancy, wait>>
    \/ PendingAcceptTransfer /\ UNCHANGED <<nonceVars, mirrorVars, requests, reentrancy, wait>>
    \/ PendingCancelTransfer /\ UNCHANGED <<nonceVars, mirrorVars, requests, reentrancy, wait>>

SpecPending == Init /\ [][NextPending]_vars

\* the recipient's accept request whose acceptTransfer transaction, if one is
\* sent, is mined and confirmed to the backend
RecipientAcceptsConfirmed ==
    \E route \in {"distributor", "retailer"}, i \in 1..MaxTransfers :
        RouteAcceptTransfer(route, Distributor, i, "confirmed")

\* the accept path: the farmer initiates on the ledger and in the mirror, and
\* the recipient asks to accept, again and again; nobody cancels
NextAccept ==
    \/ FarmerCreatesProduct /\ UNCHANGED <<nonceVars, mirrorVars, requests, reentrancy, wait>>
    \/ DistributorRegisters /\ UNCHANGED <<nonceVars, mirrorVars, requests, reentrancy, wait>>
    \/ FarmerSubmitsInitiate /\ UNCHANGED <<nonceVars, requests, reentrancy, wait>>
    \/ InitiateMined /\ UNCHANGED <<nonceVars, requests, reentrancy, wait>>
    \/ FarmerRegistersProduct /\ UNCHANGED <<nonceVars, requests, reentrancy, wait>>
    \/ FarmerInitiates /\ UNCHANGED <<nonceVars, requests, reentrancy, wait>>
    \/ RecipientAccepts /\ UNCHANGED <<nonceVars, requests, reentrancy, wait>>

\* the recipient keeps asking, and a request whose transaction is confirmed is
\* served in the end
SpecAccept ==
    /\ Init
    /\ [][NextAccept]_vars
    /\ WF_vars(RecipientAcceptsConfirmed /\ UNCHANGED <<nonceVars, requests, reentrancy, wait>>)

\* the browser waits for a receipt; every receipt query returns and every timer
\* fires
NextWait ==
    \/ WaitStarts /\ UNCHANGED <<ledgerVars, nonceVars, mirrorVars, requests, reentrancy>>
    \/ TransactionGetsMined /\ UNCHANGED <<ledgerVars, nonceVars, mirrorVars, requests, reentrancy>>
    \/ ReceiptFound /\ UNCHANGED <<ledgerVars, nonceVars, mirrorVars, requests, reentrancy>>
    \/ ReceiptNull /\ UNCHANGED <<ledgerVars, nonceVars, mirrorVars, requests, reentrancy>>
    \/ QueryRejected /\ UNCHANGED <<ledgerVars, nonceVars, mirrorVars, requests, reentrancy>>
    \/ TimerFires /\ UNCHANGED <<ledgerVars, nonceVars, mirrorVars, requests, reentrancy>>

SpecWait ==
    /\ Init
    /\ [][NextWait]_vars
    /\ WF_vars(QueryReturns /\ UNCHANGED <<ledgerVars, nonceVars, mirrorVars, requests, reentrancy>>)
    /\ WF_vars(TimerFires /\ UNCHANGED <<ledgerVars, nonceVars, mirrorVars, requests, reentrancy>>)

\* ------------------------------------------------------------------ claims
Succeeded(fn) == receipt'.fn = fn /\ receipt'.status = "success" /\ receipt'.reason = NoError

Failed(fn, reason) == receipt'.fn = fn /\ receipt'.reason = reason

LedgerUnchanged ==
    UNCHANGED <<products, pendingTransfers, identifierToAddress, addressToIdentifier,
                productIdCounter>>

\* C1: an acceptTransfer of a pending quantity q smaller than the product's
\* quantity Q creates exactly one new product identifier, holding q units owned
\* by the acceptor with the other fields copied, and leaves the original with
\* Q - q units and its owner: original_after + fragment = original_before.
C1_PartialAcceptSplits ==
    [][\A sender \in Addresses, id \in DOMAIN products :
          (/\ acceptTransfer(sender, id)
           /\ Succeeded("acceptTransfer")
           /\ pendingTransfers[id].quantity < products[id].quantity)
          => \E new \in (DOMAIN products') \ (DOMAIN products) :
                /\ DOMAIN products' = (DOMAIN products) \cup {new}
                /\ products'[new] = [products[id] EXCEPT
                                        !.quantity = pendingTransfers[id].quantity,
                                        !.currentOwner = sender]
                /\ products'[id] = [products[id] EXCEPT
                                        !.quantity = @ - pendingTransfers[id].quantity]
                /\ products'[id].quantity + products'[new].quantity = products[id].quantity
      ]_vars

\* C2: an acceptTransfer of a pending quantity equal to the product's quantity
\* makes the acceptor the owner, keeps the quantity and every other record, and
\* creates no product identifier.
C2_FullAcceptMovesOwner ==
    [][\A sender \in Addresses, id \in DOMAIN products :
          (/\ acceptTransfer(sender, id)
           /\ Succeeded("acceptTransfer")
           /\ pendingTransfers[id].quantity = products[id].quantity)
          => /\ DOMAIN products' = DOMAIN products
             /\ products'[id].currentOwner = sender
             /\ products'[id].quantity = products[id].quantity
             /\ \A other \in DOMAIN products : other # id => products'[other] = products[other]
      ]_vars

\* a full acceptance has happened: the receipt holds no ProductCreated event and
\* the recipient now owns the whole product
C2_Witness ==
    /\ receipt.fn = "acceptTransfer"
    /\ receipt.status = "success"
    /\ receipt.events[1].name = "TransferAccepted"
    /\ ProductAt(receipt.events[1].productId).currentOwner = receipt.events[1].to
    /\ ProductAt(receipt.events[1].productId).quantity = receipt.events[1].quantity

QuantityInputs == 0..(MaxQty + 1)

\* the preconditions of initiateTransfer other than the free transfer slot
InitiatePreconditions(sender, id, toIdentifier, quantity) ==
    /\ productExists(id)
    /\ ProductAt(id).currentOwner = sender
    /\ identifierToAddress[toIdentifier] # NullAddress
    /\ quantity > 0
    /\ quantity <= ProductAt(id).quantity
    /\ identifierToAddress[toIdentifier] # sender

\* C3 as stated: while a transfer of P is pending, every initiateTransfer on P
\* fails with TransferAlreadyPending and leaves the pending transfer unchanged.
C3_EveryFurtherInitiateAlreadyPending ==
    [][\A sender \in Addresses, id \in DOMAIN products, toIdentifier \in Identifiers,
          quantity \in QuantityInputs :
          (initiateTransfer(sender, id, toIdentifier, quantity) /\ hasPendingTransfer(id))
          => /\ Failed("initiateTransfer", ErrTransferAlreadyPending)
             /\ pendingTransfers' = pendingTransfers
      ]_vars

\* C3 (amended): while a transfer of P is pending, every initiateTransfer on P
\* fails and leaves the pending transfer unchanged; it fails with
\* TransferAlreadyPending when it passes the earlier checks (owner, quantity,
\* registered recipient other than the caller); an initiateTransfer succeeds
\* only on a product with no pending transfer.
C3_FurtherInitiateFails ==
    [][\A sender \in Addresses, id \in DOMAIN products, toIdentifier \in Identifiers,
          quantity \in QuantityInputs :
          initiateTransfer(sender, id, toIdentifier, quantity)
          => /\ Succeeded("initiateTransfer") => ~hasPendingTransfer(id)
             /\ hasPendingTransfer(id)
                => /\ ~Succeeded("initiateTransfer")
                   /\ pendingTransfers' = pendingTransfers
                   /\ InitiatePreconditions(sender, id, toIdentifier, quantity)
                      => Failed("initiateTransfer", ErrTransferAlreadyPending)
      ]_vars

\* a second initiateTransfer has been answered with TransferAlreadyPending while
\* the first transfer is still recorded
C3_Witness ==
    /\ receipt.fn = "initiateTransfer"
    /\ receipt.reason = ErrTransferAlreadyPending
    /\ hasPendingTransfer(receipt.events[1].productId)

\* C4: while the product's current owner differs from the initiator recorded in
\* its pending transfer (the owner address was changed by
\* updateProductOwnerAddress), no acceptTransfer succeeds or changes the ledger,
\* and the recorded recipient's acceptTransfer reverts with StaleTransfer.
C4_StaleTransferRejected ==
    [][\A sender \in Addresses, id \in DOMAIN products :
          (/\ acceptTransfer(sender, id)
           /\ hasPendingTransfer(id)
           /\ products[id].currentOwner # pendingTransfers[id].from)
          => /\ ~Succeeded("acceptTransfer")
             /\ LedgerUnchanged
             /\ sender = pendingTransfers[id].to
                => /\ Failed("acceptTransfer", ErrStaleTransfer)
                   /\ receipt'.status = "reverted"
      ]_vars

\* the recipient's acceptTransfer has reverted with StaleTransfer on a product
\* whose owner is no longer the initiator of its pending transfer
C4_Witness ==
    /\ receipt.fn = "acceptTransfer"
    /\ receipt.reason = ErrStaleTransfer
    /\ \E id \in DOMAIN products :
          /\ hasPendingTransfer(id)
          /\ pendingTransfers[id].to = receipt.from
          /\ products[id].currentOwner # pendingTransfers[id].from

\* C5: acceptTransfer succeeds only for the recipient recorded in the pending
\* transfer; on a pending transfer a call by any other address reverts with
\* NotRecipient and changes neither the product record nor the pending transfer.
C5_OnlyRecipientAccepts ==
    [][\A sender \in Addresses, id \in ProductIdInputs :
          acceptTransfer(sender, id)
          => /\ Succeeded("acceptTransfer") => sender = PendingAt(id).to
             /\ (hasPendingTransfer(id) /\ sender # PendingAt(id).to)
                => /\ Failed("acceptTransfer", ErrNotRecipient)
                   /\ receipt'.status = "reverted"
                   /\ LedgerUnchanged
      ]_vars

\* an acceptTransfer by a non-recipient has reverted and the transfer is still
\* pending
C5_Witness ==
    /\ receipt.fn = "acceptTransfer"
    /\ receipt.reason = ErrNotRecipient
    /\ \E id \in DOMAIN products :
          hasPendingTransfer(id) /\ pendingTransfers[id].to # receipt.from

\* a and b are the same participant: the same address, or two addresses of one
\* registered identifier
SameParticipant(a, b) ==
    \/ a = b
    \/ addressToIdentifier[a] # EmptyString /\ addressToIdentifier[a] = addressToIdentifier[b]

\* C6: cancelTransfer succeeds only when the caller is the same participant as
\* the initiator of the pending transfer; any other caller, registered or not,
\* fails with NotInitiator and the pending transfer stays in place.
C6_OnlyInitiatorCancels ==
    [][\A sender \in Addresses, id \in DOMAIN products :
          (cancelTransfer(sender, id) /\ hasPendingTransfer(id))
          => /\ Succeeded("cancelTransfer")
                => SameParticipant(sender, pendingTransfers[id].from)
             /\ ~SameParticipant(sender, pendingTransfers[id].from)
                => /\ Failed("cancelTransfer", ErrNotInitiator)
                   /\ pendingTransfers' = pendingTransfers
      ]_vars

\* the error of each precondition of initiateTransfer that the call violates
InitiateViolations(sender, id, toIdentifier, quantity) ==
    (IF ~productExists(id) THEN {ErrProductNotExist} ELSE {})
    \cup (IF ProductAt(id).currentOwner # sender THEN {ErrNotOwner} ELSE {})
    \cup (IF identifierToAddress[toIdentifier] = NullAddress
          THEN {ErrRecipientUnregistered} ELSE {})
    \cup (IF quantity = 0 \/ quantity > ProductAt(id).quantity
          THEN {ErrInvalidQuantity} ELSE {})
    \cup (IF identifierToAddress[toIdentifier] = sender THEN {ErrSelfTransfer} ELSE {})
    \cup (IF hasPendingTransfer(id) THEN {ErrTransferAlreadyPending} ELSE {})

\* C7: initiateTransfer(P, recipientId, q) records the pending transfer
\* {caller, resolve(recipientId), q} exactly when P exists, the caller owns P,
\* recipientId is registered, 0 < q <= P.quantity, the recipient is not the
\* caller and P has no pending transfer; otherwise it reports the error of a
\* violated precondition and changes neither products nor pending transfers.
C7_InitiateIffPreconditions ==
    [][\A sender \in Addresses, id \in ProductIdInputs, toIdentifier \in Identifiers,
          quantity \in QuantityInputs :
          initiateTransfer(sender, id, toIdentifier, quantity)
          => LET violations == InitiateViolations(sender, id, toIdentifier, quantity)
             IN  /\ Succeeded("initiateTransfer") <=> violations = {}
                 /\ violations = {}
                    => /\ pendingTransfers' = [pendingTransfers EXCEPT ![id] =
                              [from |-> sender, to |-> identifierToAddress[toIdentifier],
                               quantity |-> quantity]]
                       /\ products' = products
                 /\ violations # {}
                    => /\ receipt'.reason \in violations
                       /\ LedgerUnchanged
      ]_vars

\* an initiateTransfer has succeeded and its transfer is recorded as pending
C7_Witness ==
    /\ receipt.fn = "initiateTransfer"
    /\ receipt.status = "success"
    /\ receipt.reason = NoError
    /\ PendingAt(receipt.events[1].productId) =
          [from |-> receipt.events[1].from, to |-> receipt.events[1].to,
           quantity |-> receipt.events[1].quantity]

\* C8: a successful acceptTransfer or cancelTransfer on P starts from a pending
\* transfer and zeroes it, and on a product with no pending transfer an
\* initiateTransfer that meets the other preconditions succeeds.
C8_SlotClearsAndReopens ==
    [][\A sender \in Addresses, id \in DOMAIN products :
          /\ (\/ acceptTransfer(sender, id) /\ Succeeded("acceptTransfer")
              \/ cancelTransfer(sender, id) /\ Succeeded("cancelTransfer"))
             => /\ hasPendingTransfer(id)
                /\ pendingTransfers'[id] = ZeroTransfer
          /\ \A toIdentifier \in Identifiers, quantity \in QuantityInputs :
                (/\ initiateTransfer(sender, id, toIdentifier, quantity)
                 /\ ~hasPendingTransfer(id)
                 /\ InitiatePreconditions(sender, id, toIdentifier, quantity))
                => /\ Succeeded("initiateTransfer")
                   /\ pendingTransfers'[id].quantity = quantity
      ]_vars

\* a new transfer of P has been initiated after an earlier transfer of P was
\* accepted (a fragment of P exists)
C8_Witness ==
    /\ receipt.fn = "initiateTransfer"
    /\ receipt.status = "success"
    /\ receipt.reason = NoError
    /\ hasPendingTransfer(receipt.events[1].productId)
    /\ \E id \in DOMAIN products :
          Len(id) = 3 /\ id[1] = receipt.events[1].productId

\* C9: the identifier and address maps are inverse of each other and no two
\* identifiers map to one address.
C9_RegistryBijection ==
    /\ \A i \in Identifiers :
          identifierToAddress[i] # NullAddress
          => addressToIdentifier[identifierToAddress[i]] = i
    /\ \A a \in Addresses :
          addressToIdentifier[a] # EmptyString
          => identifierToAddress[addressToIdentifier[a]] = a
    /\ \A i, j \in Identifiers :
          (i # j /\ identifierToAddress[i] # NullAddress)
          => identifierToAddress[i] # identifierToAddress[j]

\* C10: the nonces returned by getNonce on one signing account are strictly
\* increasing in order of issue, so no two submissions get the same nonce.
C10_NoncesStrictlyIncrease ==
    \A i, j \in 1..Len(issued) : i < j => issued[i] < issued[j]


SubmissionFails == \E c \in Calls : pc[c] # "failed" /\ pc'[c] = "failed"

\* C11: every step in which a ledger submission fails leaves the signing
\* account's nonce counter unknown (null), so the next attempt re-reads the
\* ledger's transaction count.
C11_FailureResetsNonce == [][SubmissionFails => nonce' = NullNonce]_vars

ObtainsNonce(c) == txNonce[c] = NullNonce /\ txNonce'[c] # NullNonce

\* C12: when callers await each submission, an attempt made with a known counter
\* receives the nonce following the last one issued, the first attempt after the
\* counter was unknown receives the ledger's transaction count, and each attempt
\* advances the counter by exactly one.
C12_SequentialNoncesConsecutive ==
    [][\A c \in Calls : ObtainsNonce(c) =>
          LET n == IF nonce = NullNonce THEN transactionCount ELSE nonce
          IN  /\ txNonce'[c] = n
              /\ nonce' = n + 1
              /\ issued' = Append(issued, n)
              /\ (nonce # NullNonce => n = issued[Len(issued)] + 1)]_vars

\* three awaited attempts without a reset received 0, 1, 2 and the last of
\* them is still unmined
C12_Witness ==
    /\ issued = <<0, 1, 2>>
    /\ nonce = 3
    /\ \A c \in Calls : pc[c] # "failed"
    /\ \E c \in Calls : pc[c] = "sendSignedTransaction"

\* C13: one call of sendTransaction sends at most one signed transaction,
\* whatever its outcome.
C13_AtMostOneSend == \A c \in Calls : sent[c] <= 1

\* a call whose only transaction was sent and then failed
C13_Witness == \E c \in Calls : pc[c] = "failed" /\ sent[c] = 1

\* the ledger holds the result of an accepted transfer of the batch to the
\* recipient: the recipient owns the product or a fragment split from it
LedgerAccepted(recipient) ==
    \/ ProductAt(BlockchainId).currentOwner = recipient
    \/ \E id \in DOMAIN products :
          Len(id) = 3 /\ id[1] = BlockchainId /\ id[3] = recipient

AcceptRoutes == {"distributor", "retailer"}

\* C14: an accept request for a transfer that is already settled (the mirror
\* Transfer is completed and the ledger has accepted) sends no acceptTransfer
\* transaction and leaves the mirror Transfer and Product as they are.
C14_SettledTransferNotResubmitted ==
    [][\A route \in AcceptRoutes, i \in 1..MaxTransfers, outcome \in SendOutcomes :
          (RouteAcceptTransfer(route, Distributor, i, outcome)
             /\ transfers[i].status = "completed"
             /\ mirrorProduct.currentOwner = transfers[i].toUser
             /\ LedgerAccepted(transfers[i].toUser))
          => /\ ~lastAccept'.sent
             /\ UNCHANGED <<transfers, mirrorProduct>>]_vars

\* C15: a mirror Transfer is completed, and the mirror Product is owned by the
\* recipient, only when the ledger has accepted a transfer of the product to
\* that recipient.
C15_MirrorWrittenAfterLedgerAccept ==
    /\ \A i \in 1..Len(transfers) :
          transfers[i].status = "completed" => LedgerAccepted(transfers[i].toUser)
    /\ mirrorProduct.currentOwner = Distributor => LedgerAccepted(Distributor)

\* C16: cancelling the only transfer initiated on the mirror product returns the
\* product's quantity to its value before the initiation, whatever happened in
\* between.
C16_CancelRestoresQuantity ==
    [][\A i \in 1..MaxTransfers :
          (RouteCancelTransfer(Farmer, i) /\ Len(transfers) = 1
             /\ transfers[i].status = "pending" /\ transfers'[i].status = "cancelled")
          => mirrorProduct'.quantity = transfers[i].quantityBefore]_vars

\* C17: when an accept request has had its acceptTransfer confirmed by the
\* ledger, the mirror Product's owner and quantity equal the ledger's owner and
\* quantity of the product.
C17_MirrorEqualsLedgerAfterAccept ==
    [][\A route \in AcceptRoutes, i \in 1..MaxTransfers :
          (RouteAcceptTransfer(route, Distributor, i, "confirmed") /\ lastAccept'.sent
             /\ products' # products)
          => /\ mirrorProduct'.currentOwner = products'[BlockchainId].currentOwner
             /\ mirrorProduct'.quantity = products'[BlockchainId].quantity]_vars

\* C18: a status query on a submitted transaction that has no receipt reports
\* pending.
C18_UnknownReportsPending ==
    \A i \in 1..Len(txs) :
        txs[i].status = "unmined" => checkTransferStatus(TxHash(i)) = "pending"

\* a pending mirror Transfer refers to a submitted transaction without receipt
C18_Witness ==
    \E i \in 1..Len(transfers), j \in 1..Len(txs) :
        /\ transfers[i].status = "pending"
        /\ transfers[i].blockchainTx = TxHash(j)
        /\ txs[j].status = "unmined"

\* C19: an accept request whose acceptTransfer transaction was sent and ended
\* without a receipt (mined unseen, or lost) changes neither the mirror Transfer
\* nor the mirror Product.
C19_UnknownLeavesMirror ==
    [][\A route \in AcceptRoutes, i \in 1..MaxTransfers, outcome \in {"unseen", "lost"} :
          (RouteAcceptTransfer(route, Distributor, i, outcome) /\ lastAccept'.sent)
          => UNCHANGED <<transfers, mirrorProduct>>]_vars

\* the latest accept request sent its transaction, the ledger accepted, and the
\* mirror still shows the transfer pending and the farmer as owner
C19_Witness ==
    /\ lastAccept.sent
    /\ LedgerAccepted(Distributor)
    /\ \E i \in 1..Len(transfers) :
          transfers[i].status = "pending" /\ transfers[i].blockchainTx = BlockchainId
    /\ mirrorProduct.currentOwner = Farmer
    /\ receipt.fn = "acceptTransfer" /\ receipt.status = "success"

\* C20: an accept request that reads the transfer's transaction as failed
\* stores status failed on the mirror Transfer and leaves the mirror Product's
\* quantity as it was.
C20_RevertedMarksFailed ==
    [][\A route \in AcceptRoutes, i \in 1..MaxTransfers, outcome \in SendOutcomes :
          (RouteAcceptTransfer(route, Distributor, i, outcome)
             /\ checkTransferStatus(transfers[i].blockchainTx) = "failed")
          => /\ transfers'[i].status = "failed"
             /\ mirrorProduct'.quantity = mirrorProduct.quantity]_vars

\* C21: a cancel request made while the ledger holds no pending transfer of the
\* product leaves the mirror Transfer's status and the mirror Product's quantity
\* unchanged.
C21_StaleCancelLeavesMirror ==
    [][\A i \in 1..MaxTransfers :
          (RouteCancelTransfer(Farmer, i) /\ ~hasPendingTransfer(BlockchainId))
          => /\ transfers'[i].status = transfers[i].status
             /\ mirrorProduct'.quantity = mirrorProduct.quantity]_vars

\* C22: when the initiateTransfer submitted by the retailer's sale request is
\* rejected by the ledger (TransferError), the request creates no mirror
\* Transfer and leaves the mirror Product as it was.
C22_LedgerRejectionCreatesNoTransfer ==
    [][\A quantity \in TransferQuantities, outcome \in SendOutcomes :
          (RouteInitiateTransferToConsumer(Retailer, quantity, outcome)
             /\ Len(txs') > Len(txs)
             /\ txs'[Len(txs')].event = "TransferError")
          => UNCHANGED <<transfers, mirrorProduct>>]_vars

\* h is g with entries appended at its end
IsPrefix(g, h) == Len(g) <= Len(h) /\ SubSeq(h, 1, Len(g)) = g

\* C23: the mirror Product's ownership history only grows at its end, and every
\* step that changes the Product's current owner appends exactly one entry,
\* which names the previous owner.
C23_OwnershipHistoryAppendOnly ==
    [][/\ IsPrefix(mirrorProduct.ownershipHistory, mirrorProduct'.ownershipHistory)
       /\ (mirrorProduct # NoMirrorProduct
             /\ mirrorProduct'.currentOwner # mirrorProduct.currentOwner)
          => mirrorProduct'.ownershipHistory =
                Append(mirrorProduct.ownershipHistory, mirrorProduct.currentOwner)]_vars

RECURSIVE PendingQuantity(_)
\* the sum of the quantities of the Transfer documents in status pending
PendingQuantity(docs) ==
    IF docs = <<>> THEN 0
    ELSE (IF Head(docs).status = "pending" THEN Head(docs).quantity ELSE 0)
         + PendingQuantity(Tail(docs))

NoRequestInFlight == \A r \in Requests : requests[r].pc \in {"idle", "rejected", "done"}

\* C24: the mirror Product's quantity is never negative, and once the initiate
\* requests served together have all finished it equals the initial quantity
\* minus the sum of the quantities of the pending Transfers.
C24_ConcurrentInitiatesLoseNoUpdate ==
    /\ mirrorProduct.quantity >= 0
    /\ (mirrorProduct # NoMirrorProduct /\ NoRequestInFlight)
       => mirrorProduct.quantity = ValidCreate.quantity - PendingQuantity(transfers)

\* C25: while a call guarded by the reentrancy guard is executing, no nested
\* call changes a product or a pending transfer: initiateTransfer,
\* acceptTransfer and cancelTransfer are all stopped by the guard.
C25_MutatorsGuarded ==
    [][reentrancy.status = "ENTERED" => UNCHANGED <<products, pendingTransfers>>]_vars

\* C26: initiateTransfer and cancelTransfer leave every product record as it
\* is, and of the three transfer functions only acceptTransfer changes the owner
\* or the quantity of a product.
C26_InitiateCancelKeepProducts ==
    [][/\ \A sender \in Addresses, id \in ProductIdInputs :
            receipt'.from = sender
            => /\ (receipt'.fn = "cancelTransfer" /\ cancelTransfer(sender, id))
                  => products' = products
               /\ receipt'.fn = "initiateTransfer"
                  => \A toIdentifier \in Identifiers, quantity \in QuantityInputs :
                        initiateTransfer(sender, id, toIdentifier, quantity)
                        => products' = products
       /\ (\E id \in DOMAIN products :
              \/ products'[id].currentOwner # products[id].currentOwner
              \/ products'[id].quantity # products[id].quantity)
          => receipt'.fn \in {"acceptTransfer", "updateProductOwnerAddress"}
      ]_vars

\* a transfer of part of the batch was initiated and then cancelled, and the
\* product still holds the whole batch
C26_Witness ==
    /\ receipt.fn = "cancelTransfer"
    /\ receipt.status = "success"
    /\ \E id \in DOMAIN products :
          /\ receipt.events[1].productId = id
          /\ products[id].quantity = MaxQty
          /\ products[id].currentOwner = receipt.from
          /\ ~hasPendingTransfer(id)

\* C27: a product that exists keeps existing: in every step its record stays,
\* its owner is not the null address and its quantity is positive, and every
\* record a step creates has an owner and a positive quantity.
C27_ProductsPersist ==
    [][/\ \A id \in DOMAIN products :
            productExists(id)
            => /\ id \in DOMAIN products'
               /\ products'[id].currentOwner # NullAddress
               /\ products'[id].quantity > 0
       /\ \A id \in DOMAIN products' :
            products'[id].currentOwner # NullAddress /\ products'[id].quantity > 0
      ]_vars

\* the batch was split by a partial acceptance and what was left of it was then
\* transferred in full and marked delivered
C27_Witness ==
    \E id \in DOMAIN products, fragment \in DOMAIN products :
        /\ Len(id) = 1
        /\ Len(fragment) = 3 /\ fragment[1] = id
        /\ products[id].quantity < MaxQty
        /\ products[id].currentOwner = products[fragment].currentOwner
        /\ products[id].status = StatusDelivered

\* C28: createProduct reverts and changes nothing when batch, type or origin is
\* empty, the quantity or the price is 0, or the production date is 0 or after
\* the block's timestamp; otherwise it adds exactly one record, under an
\* identifier no record had, owned by the caller, Registered, with the given
\* quantity and price, and leaves every other record as it was.
C28_CreateProductValidates ==
    [][\A sender \in Addresses, strings \in CreateStrings, date \in CreateDates,
          quantity \in 0..MaxQty, price \in {0, 1} :
          (/\ receipt'.from = sender
           /\ createProduct(sender, strings[1], strings[2], strings[3], date, quantity,
                            price))
          => LET invalid == \/ strings[1] = EmptyString \/ strings[2] = EmptyString
                            \/ strings[3] = EmptyString
                            \/ quantity = 0 \/ price = 0
                            \/ date = 0 \/ date > blockTimestamp
             IN  /\ invalid => (receipt'.status = "reverted" /\ LedgerUnchanged)
                 /\ ~invalid
                    => \E new \in (DOMAIN products') \ (DOMAIN products) :
                          /\ DOMAIN products' = (DOMAIN products) \cup {new}
                          /\ products'[new] =
                                [batchNumber |-> strings[1], productType |-> strings[2],
                                 origin |-> strings[3], productionDate |-> date,
                                 quantity |-> quantity, currentOwner |-> sender,
                                 status |-> StatusRegistered, price |-> price]
                          /\ \A id \in DOMAIN products : products'[id] = products[id]
                          /\ Succeeded("createProduct")
      ]_vars

\* a second product was created next to the first, each under its own identifier
C28_Witness ==
    /\ receipt.fn = "createProduct"
    /\ receipt.status = "success"
    /\ productIdCounter = 2
    /\ productExists(CounterId(1))
    /\ productExists(CounterId(2))
    /\ receipt.events[1].productId = CounterId(2)

\* C29: updateProductStatus succeeds exactly when the caller is the current
\* owner of an existing product, for each of the eight statuses whatever the
\* current one is; on a product that does not exist it fails with "Product does
\* not exist", for another caller with "Only the current owner can update the
\* status", and both failures leave the ledger as it was; a success changes the
\* status field of that product and nothing else.
C29_UpdateStatusOnlyOwner ==
    [][\A sender \in StatusSenders, productId \in ProductIdInputs, newStatus \in Statuses :
          (/\ receipt'.from = sender
           /\ receipt'.fn = "updateProductStatus"
           /\ updateProductStatus(sender, productId, newStatus))
          => /\ ~productExists(productId)
                => Failed("updateProductStatus", ErrProductNotExist) /\ LedgerUnchanged
             /\ (productExists(productId) /\ products[productId].currentOwner # sender)
                => Failed("updateProductStatus", ErrStatusNotOwner) /\ LedgerUnchanged
             /\ (productExists(productId) /\ products[productId].currentOwner = sender)
                => /\ Succeeded("updateProductStatus")
                   /\ products' = [products EXCEPT ![productId].status = newStatus]
                   /\ UNCHANGED <<pendingTransfers, identifierToAddress,
                                  addressToIdentifier, productIdCounter>>
             /\ Succeeded("updateProductStatus")
                => products[productId].currentOwner = sender
      ]_vars

\* the account that accepted a product sets it from Delivered back to Harvested
C29_Witness ==
    /\ receipt.fn = "updateProductStatus"
    /\ receipt.status = "success"
    /\ receipt.from = "a2"
    /\ receipt.events[1].oldStatus = StatusDelivered
    /\ receipt.events[1].newStatus = 3
    /\ products[receipt.events[1].productId].status = 3
    /\ products[receipt.events[1].productId].currentOwner = "a2"

\* C30: quantity is conserved on the ledger: in every reachable state the
\* quantities of all existing product records add up to the quantities passed to
\* the successful createProduct calls (each successful createProduct of this
\* specification passes MaxQty units and advances the counter by one).
C30_QuantityConserved == TotalQuantity = MaxQty * productIdCounter

\* C31: the owner of an existing product changes only to the recorded recipient
\* of its pending transfer, by that recipient's acceptTransfer, or to another
\* address of the registered participant that owns it, by
\* updateProductOwnerAddress.
C31_OwnerChangesOnlyByProtocol ==
    [][\A id \in DOMAIN products :
          (productExists(id) /\ products'[id].currentOwner # products[id].currentOwner)
          => \/ /\ receipt'.fn = "acceptTransfer"
                /\ hasPendingTransfer(id)
                /\ products'[id].currentOwner = pendingTransfers[id].to
                /\ receipt'.from = pendingTransfers[id].to
             \/ /\ receipt'.fn = "updateProductOwnerAddress"
                /\ addressToIdentifier[products[id].currentOwner] # EmptyString
                /\ addressToIdentifier[products'[id].currentOwner] =
                      addressToIdentifier[products[id].currentOwner]
      ]_vars

\* C32: in every reachable ledger state each product identifier with a non-zero
\* pending quantity refers to an existing product, the pending quantity is at
\* most the product's quantity, and the recorded recipient is a non-null address
\* other than the recorded initiator.
C32_PendingWellFormed ==
    \A id \in DOMAIN pendingTransfers :
        pendingTransfers[id].quantity # 0
        => /\ productExists(id)
           /\ pendingTransfers[id].quantity <= ProductAt(id).quantity
           /\ pendingTransfers[id].to # NullAddress
           /\ pendingTransfers[id].to # pendingTransfers[id].from

\* the last transaction succeeded and emitted the named event for the product
Emitted(name, id) ==
    /\ receipt'.status = "success"
    /\ \E i \in DOMAIN receipt'.events :
          receipt'.events[i].name = name /\ receipt'.events[i].productId = id

\* C33: each initiated transfer is resolved at most once.  The pending record
\* of a product is open from the TransferInitiated event to the accept or cancel
\* that follows it: a record opens only in a step that emits TransferInitiated
\* for the product, stays as recorded while open, and closes only in a step that
\* emits TransferAccepted or TransferCancelled for the product; every successful
\* acceptTransfer or cancelTransfer starts from an open record and closes it, and
\* every successful initiateTransfer starts from a closed one.
C33_TransferResolvedOnce ==
    [][/\ \A id \in DOMAIN pendingTransfers' :
            /\ (~hasPendingTransfer(id) /\ pendingTransfers'[id].quantity # 0)
               => receipt'.fn = "initiateTransfer" /\ Emitted("TransferInitiated", id)
            /\ (hasPendingTransfer(id) /\ pendingTransfers'[id].quantity # 0)
               => pendingTransfers'[id] = pendingTransfers[id]
            /\ (hasPendingTransfer(id) /\ pendingTransfers'[id].quantity = 0)
               => \/ receipt'.fn = "acceptTransfer" /\ Emitted("TransferAccepted", id)
                  \/ receipt'.fn = "cancelTransfer" /\ Emitted("TransferCancelled", id)
       /\ \A sender \in Addresses, id \in ProductIdInputs :
            (receipt'.from = sender /\ receipt'.status = "success")
            => /\ (receipt'.fn = "acceptTransfer" /\ acceptTransfer(sender, id))
                  => /\ hasPendingTransfer(id)
                     /\ pendingTransfers'[id].quantity = 0
                     /\ Emitted("TransferAccepted", id)
                     /\ ~Emitted("TransferCancelled", id)
               /\ (receipt'.fn = "cancelTransfer" /\ cancelTransfer(sender, id))
                  => /\ hasPendingTransfer(id)
                     /\ pendingTransfers'[id].quantity = 0
                     /\ Emitted("TransferCancelled", id)
               /\ (receipt'.fn = "initiateTransfer" /\ Emitted("TransferInitiated", id))
                  => \A toIdentifier \in Identifiers :
                        initiateTransfer(sender, id, toIdentifier,
                                         receipt'.events[1].quantity)
                        => ~hasPendingTransfer(id)
      ]_vars

\* after a part of the batch was accepted, a further transfer of the batch was
\* initiated and cancelled
C33_Witness ==
    /\ receipt.fn = "cancelTransfer"
    /\ receipt.status = "success"
    /\ ~hasPendingTransfer(receipt.events[1].productId)
    /\ \E id \in DOMAIN products :
          Len(id) = 3 /\ id[1] = receipt.events[1].productId

\* C34: when a mirror Transfer to the recipient is pending and its transfer (the
\* one its blockchainTx names, by the product's id or by the hash of the mined
\* initiateTransfer transaction) is pending on the ledger for the recipient, the
\* recipient's accept requests lead to the ledger having accepted the transfer
\* and the mirror Transfer being completed.
C34_AcceptEventuallyCompletes ==
    (\E i \in 1..Len(transfers) :
        /\ transfers[i].status = "pending"
        /\ transfers[i].toUser = Distributor
        /\ \/ transfers[i].blockchainTx = BlockchainId
           \/ checkTransferStatus(transfers[i].blockchainTx) = "pending_acceptance"
        /\ hasPendingTransfer(BlockchainId)
        /\ PendingAt(BlockchainId).to = Distributor)
    ~> (\E i \in 1..Len(transfers) :
           /\ transfers[i].status = "completed"
           /\ ~hasPendingTransfer(BlockchainId))

\* C35: in every reachable state the mirror Product's quantity is between 0 and
\* the quantity the ledger records under the product's identifier.
C35_MirrorQuantityWithinLedger ==
    (mirrorProduct # NoMirrorProduct /\ productExists(BlockchainId))
    => /\ mirrorProduct.quantity >= 0
       /\ mirrorProduct.quantity <= ProductAt(BlockchainId).quantity

\* C36: the mirror Transfer statuses completed, cancelled and failed are final:
\* no step changes the status of a Transfer that has one of them, and an accept
\* or cancel request for such a Transfer leaves the mirror Product as it is.
C36_SettledStatusFinal ==
    [][\A i \in 1..Len(transfers) :
          transfers[i].status \in {"completed", "cancelled", "failed"}
          => /\ transfers'[i].status = transfers[i].status
             /\ (\A j \in 1..Len(transfers) : j # i => transfers[j].status # "pending")
                => (lastAccept' # lastAccept => mirrorProduct' = mirrorProduct)
      ]_vars

C38_WaitTerminates ==
    /\ [](wait.polls <= wait.maxAttempts + 1)
    /\ []((wait.pc = "rejected" /\ wait.result = "not mined")
             => wait.polls = wait.maxAttempts + 1)
    /\ [](wait.pc = "resolved" => wait.result \in {"true", "false"})
    /\ [](wait.pc = "rejected" => wait.result \in {"not mined", "query error"})
    /\ [][(wait.pc = "query" /\ wait'.pc # "query")
            => /\ wait'.polls = wait.polls
               /\ wait.mined # "unmined"
                  => \/ wait'.pc = "resolved" /\ wait'.result = wait.mined
                     \/ wait'.pc = "rejected" /\ wait'.result = "query error"
               /\ wait.mined = "unmined"
                  => \/ wait'.pc = "timer" /\ wait.polls <= wait.maxAttempts
                     \/ wait'.pc = "rejected"
       ]_vars
    /\ (wait.pc # "idle") ~> (wait.pc \in {"resolved", "rejected"})

\* no receipt was found in maxAttempts + 1 polls and the call gave up
C38_Witness ==
    /\ wait.pc = "rejected"
    /\ wait.result = "not mined"
    /\ wait.maxAttempts = MaxAttempts
    /\ wait.polls = MaxAttempts + 1

====
